---- MODULE Spec2Model ----
(***************************************************************************)
(* Block-preview state machine of the filter preview panel                 *)
(* (components/analysis/Filter/PreviewPanel.vue) driven by the result      *)
(* protocol of its parent (FilterTab: executeFilter / watch(filterMode)).  *)
(*                                                                         *)
(* One action per event handler.  Vue runs the watcher callbacks queued by *)
(* a handler in the microtask flush that follows it, before any timer or   *)
(* user event, so every action includes the watcher callbacks it triggers. *)
(* Timers of equal delay expire in the order they were started, so each    *)
(* kind of timer is a FIFO queue.                                          *)
(***************************************************************************)
EXTENDS Integers, Sequences, FiniteSets, TLC

\* ------------------------------------------------------------------ bounds
MaxBlocks == 3
MaxTimers == 1
MaxLiveBlocks == 2
MaxRequests == 2
MaxChars == 70000
MaxSessions == 3
MaxListLen == 2
MaxYearBlocks == 2
MaxVersion == 10
MaxDialogs == 1
MaxDownloads == 1
MaxStreams == 2

\* ------------------------------------------------------------- data model
\* null of `number | null` (message ids and indices are >= 0)
Null == -1

\* props.result === null
NoResult == [present |-> FALSE, blocks |-> <<>>]

\* isHit flags of the blocks the filter service returns: a block of context
\* only, a hit after a context message, and a block with two hits
BlockShapes == { <<FALSE>>, <<FALSE, TRUE>>, <<TRUE, TRUE>> }

\* number of messages in the first n blocks of the shapes p
RECURSIVE MessagesBefore(_, _)
MessagesBefore(p, n) == IF n = 0 THEN 0 ELSE MessagesBefore(p, n - 1) + Len(p[n])

\* ids follow the chronological order of the log, unique within a result;
\* a message is stamped with its position in the log, a block with the
\* stamps of its first and last message
MakeBlock(firstId, hits) ==
    [startTs |-> firstId,
     endTs |-> firstId + Len(hits) - 1,
     messages |-> [k \in 1..Len(hits) |-> [id |-> firstId + k - 1, isHit |-> hits[k]]],
     hitCount |-> Cardinality({k \in 1..Len(hits) : hits[k]})]

\* the results the external filter service may return (blocks oldest first)
Results ==
    UNION { { [present |-> TRUE,
               blocks |-> [b \in 1..n |-> MakeBlock(MessagesBefore(p, b - 1) + 1, p[b])]] :
                p \in [1..n -> BlockShapes] } : n \in 0..MaxBlocks }

VARIABLES
    result,                    \* props.result
    selectedBlockIndex,        \* ref(0)
    isBlockSwitching,          \* let isBlockSwitching = false
    pendingScrollToMessageId,  \* ref<number | null>(null)
    scrollTimers,              \* in-flight setTimeout(..., 100) callbacks, oldest first
    switchTimers,              \* in-flight setTimeout(..., 300) callbacks, oldest first
    scrollToMessageCall,       \* argument of messageListRef.scrollToMessage issued by the last step
    scrollToIndexCall,         \* argument of blockVirtualizer.scrollToIndex issued by the last step
    last,                      \* the handler that ran in the last step and its argument
    resetFrom,                 \* index / pending target overwritten by the last result replacement
    advancesInWindow           \* increments made by goToNextBlock since the debounce window opened

vars == <<result, selectedBlockIndex, isBlockSwitching, pendingScrollToMessageId,
          scrollTimers, switchTimers, scrollToMessageCall, scrollToIndexCall,
          last, resetFrom, advancesInWindow>>

\* state of the FilterTab component that owns the preview panel
VARIABLES
    currentSessionId,          \* sessionStore.currentSessionId
    filterMode,                \* ref<'condition' | 'session'>('condition')
    conditionFilter,           \* ref({ keywords, timeRange, senderIds, contextSize })
    selectedSessionIds,        \* ref<number[]>([])
    filterResult,              \* ref<... | null>(null)
    isFiltering,               \* ref(false)
    inFlight,                  \* awaited calls of window.aiApi that have not settled
    nextRequestId,             \* number of the next call of window.aiApi
    tokenProps,                \* :estimated-tokens / :token-status bound by the last render
    clearedResult,             \* the last result that executeFilter replaced by null
    showAnalysisModal,         \* ref(false)
    tabLast                    \* the FilterTab handler that ran in the last step

tabVars == <<currentSessionId, filterMode, conditionFilter, selectedSessionIds,
             filterResult, isFiltering, inFlight, nextRequestId, tokenProps,
             clearedResult, showAnalysisModal, tabLast>>

\* state of the SessionPanel component (the session picker of FilterTab)
VARIABLES
    sessions,                  \* ref<ChatSession[]>([])
    isLoading,                 \* ref(false), true while getSessions is awaited
    selectedIds,               \* defineModel<number[]>('selectedIds')
    selectedSet,               \* ref<Set<number>>, in insertion order
    selLast                    \* the handler that ran in the last step and the set before it

selVars == <<sessions, isLoading, selectedIds, selectedSet, selLast>>

\* the time zone of the host and the year option of the last formatDateTime
VARIABLES
    timeZone,                  \* offset of local time from UTC, in seconds
    yearOption                 \* options.year of the last formatDateTime call

envVars == <<timeZone, yearOption>>

\* state of the update checker of the main process (checkUpdate)
VARIABLES
    appVersion,                \* app.getVersion()
    infoVersion,               \* info.version of the last update-available event
    isFirstShow,               \* let isFirstShow = true
    isManualCheck,             \* let isManualCheck = false
    showUpdateMessageBox,      \* let showUpdateMessageBox = false
    checkTimer,                \* the setTimeout(..., 3000) of checkUpdate is pending
    checking,                  \* the check in progress: "none", "automatic" or "manual"
    updateDialogs,             \* open message boxes of the update-available handler
    downloads,                 \* calls of autoUpdater.downloadUpdate() that have not settled
    installDialogs,            \* open message boxes of the update-downloaded handler
    quitTimers,                \* pending setTimeout(..., 100) of the install branch
    updHistory,                \* what the user has agreed to and what has completed so far
    updLast                    \* the handler that ran in the last step and what it did

updVars == <<appVersion, infoVersion, isFirstShow, isManualCheck, showUpdateMessageBox,
             checkTimer, checking, updateDialogs, downloads, installDialogs, quitTimers,
             updHistory, updLast>>

\* state of the LocalAnalysisModal component
VARIABLES
    open,                      \* defineModel<boolean>('open', { default: false })
    hasQuestion,               \* props.filterResult && userQuestion.value
    isAnalyzing,               \* ref(false)
    currentRequestId,          \* let currentRequestId: string | null = null
    streams,                   \* calls of window.agentApi.runStream whose promise has not settled
    aborting,                  \* request ids whose `await window.agentApi.abort(id)` has not returned
    nextStreamId,              \* number of the next call of window.agentApi.runStream
    anaLast                    \* the handler that ran in the last step

anaVars == <<open, hasQuestion, isAnalyzing, currentRequestId, streams, aborting,
             nextStreamId, anaLast>>

allVars == <<vars, tabVars, selVars, envVars, updVars, anaVars>>

\* ---------------------------------------------------------- pure helpers
blockCount == IF result.present THEN Len(result.blocks) ELSE 0

\* returns <<>> for null / undefined, <<block>> otherwise
getBlockAtReversedIndex_Forward(index) ==
    IF ~result.present THEN <<>>
    ELSE IF index >= 0 /\ index < Len(result.blocks)
         THEN <<result.blocks[index + 1]>>
         ELSE <<>>

getBlockAtReversedIndex(index) ==
    IF ~result.present THEN <<>>
    ELSE LET originalIndex == Len(result.blocks) - 1 - index
         IN  IF originalIndex >= 0 /\ originalIndex < Len(result.blocks)
             THEN <<result.blocks[originalIndex + 1]>>
             ELSE <<>>

\* block.messages.find((msg) => msg.isHit): <<>> for undefined
RECURSIVE firstHitMessage_Last(_)
firstHitMessage_Last(messages) ==
    IF messages = <<>> THEN <<>>
    ELSE IF messages[Len(messages)].isHit THEN <<messages[Len(messages)]>>
    ELSE firstHitMessage_Last(SubSeq(messages, 1, Len(messages) - 1))

RECURSIVE firstHitMessage(_)
firstHitMessage(messages) ==
    IF messages = <<>> THEN <<>>
    ELSE IF Head(messages).isHit THEN <<Head(messages)>>
    ELSE firstHitMessage(Tail(messages))

currentBlockMessages ==
    IF blockCount = 0 THEN <<>>
    ELSE LET block == getBlockAtReversedIndex(selectedBlockIndex)
         IN  IF block = <<>> THEN <<>>
             ELSE [k \in 1..Len(block[1].messages) |-> [id |-> block[1].messages[k].id]]

\* the filter of isHit left out: the id of every message
hitIdsOf_All(messages) == [k \in DOMAIN messages |-> messages[k].id]

\* block.messages.filter((msg) => msg.isHit).map((msg) => msg.id)
RECURSIVE hitIdsOf(_)
hitIdsOf(messages) ==
    IF messages = <<>> THEN <<>>
    ELSE IF Head(messages).isHit
         THEN <<Head(messages).id>> \o hitIdsOf(Tail(messages))
         ELSE hitIdsOf(Tail(messages))

hitMessageIds ==
    IF blockCount = 0 THEN <<>>
    ELSE LET block == getBlockAtReversedIndex(selectedBlockIndex)
         IN  IF block = <<>> THEN <<>> ELSE hitIdsOf(block[1].messages)

\* <MessageList v-if="currentBlockMessages.length > 0" ref="messageListRef">
\* inside the v-else branch of "!result" and "result.blocks.length === 0"
messageListMounted == result.present /\ blockCount > 0 /\ Len(currentBlockMessages) > 0

\* ------------------------------------------------------ handler helpers
\* pending target after selectBlock(index), given the one before
selectBlockPending(index, pending) ==
    LET block == getBlockAtReversedIndex(index)
    IN  IF block # <<>> /\ firstHitMessage(block[1].messages) # <<>>
        THEN firstHitMessage(block[1].messages)[1].id
        ELSE pending

\* watch(pendingScrollToMessageId): runs when the value differs from the one
\* seen at the previous flush; a non-null value starts the 100 ms timer
watchPending(old, new, timers) ==
    IF new # old /\ new # Null
    THEN Append(timers, [messageId |-> new, stale |-> FALSE])
    ELSE timers

\* no call of blockVirtualizer.scrollToIndex in the last step
NoScrollToIndex == [index |-> Null, align |-> "none"]

\* blockVirtualizer.value.scrollToIndex(index, { align: 'center' })
scrollToBlockInList_Stale(index) == [index |-> index - 1, align |-> "center"]

scrollToBlockInList(index) == [index |-> index, align |-> "center"]

\* guards of goToNextBlock
CanAdvance_NoDebounce ==
    /\ blockCount # 0
    /\ selectedBlockIndex < blockCount - 1

CanAdvance_OffByOne ==
    /\ ~isBlockSwitching
    /\ blockCount # 0
    /\ selectedBlockIndex <= blockCount - 1

CanAdvance ==
    /\ ~isBlockSwitching
    /\ blockCount # 0
    /\ selectedBlockIndex < blockCount - 1

\* callback of watch(() => props.result)
watchResult_KeepPending(index, pending) ==
    [selectedBlockIndex |-> 0, pendingScrollToMessageId |-> pending]

watchResult_KeepIndex(index, pending) ==
    [selectedBlockIndex |-> index, pendingScrollToMessageId |-> Null]

watchResult(index, pending) ==
    [selectedBlockIndex |-> 0, pendingScrollToMessageId |-> Null]

\* callback of the 300 ms timer: the value written to isBlockSwitching
switchTimerCallback_Keep(switching) == switching

switchTimerCallback(switching) == FALSE

\* callback of the 100 ms timer: the value written to pendingScrollToMessageId
scrollTimerCallback_Keep(pending) == pending

scrollTimerCallback(pending) == Null

\* body of goToPrevBlock: the index it leaves
prevBlockIndex_Decrement(index) == IF index > 0 THEN index - 1 ELSE index

prevBlockIndex(index) == index

\* timers that were started under a result that has since been replaced
MarkStale(timers) == [k \in 1..Len(timers) |-> [timers[k] EXCEPT !.stale = TRUE]]

\* value of resetFrom when the last step was not a result replacement
NoReset == [index |-> Null, pending |-> Null, switching |-> FALSE]

\* ------------------------------------------------------ FilterTab: data
\* the values the condition panel and the session list can produce
Keywords == {"kw"}
MemberIds == {1}
ChatSessionIds == {1}
NoTimeRange == [start |-> Null, end |-> Null]
TimeRanges == {NoTimeRange, [start |-> 1, end |-> 2]}

\* typeof conditionFilter.value; arrays without duplicates as sets
Conditions == [keywords : SUBSET Keywords, timeRange : TimeRanges, senderIds : SUBSET MemberIds]

\* ref({ keywords: [], timeRange: null, senderIds: [], contextSize: 10 })
EmptyCondition == [keywords |-> {}, timeRange |-> NoTimeRange, senderIds |-> {}]

\* the entries FilterHistory can emit with @load: the payload of the
\* entry's mode, which is optional
HistoryConditions ==
    [mode : {"condition"}, hasCondition : BOOLEAN, conditionFilter : Conditions,
     hasSessions : {FALSE}, selectedSessionIds : {{}}]
    \cup
    [mode : {"session"}, hasCondition : {FALSE}, conditionFilter : {EmptyCondition},
     hasSessions : BOOLEAN, selectedSessionIds : SUBSET ChatSessionIds]

\* filterResult.value === null
NoFilterResult ==
    [present |-> FALSE, request |-> Null, mode |-> "none", blocks |-> 0, totalChars |-> 0]

\* stats.totalChars of the results the filter service returns to FilterTab
CharSamples == {0, 66667}

\* blocks.length and stats.totalChars of the results: without blocks there
\* is no character to count
ServicePayloads ==
    {[blocks |-> 0, totalChars |-> 0]} \cup {[blocks |-> 1, totalChars |-> c] : c \in CharSamples}

\* what a call of window.aiApi resolves to: one result object per call
ResultOf(request, payload) ==
    [present |-> TRUE, request |-> request.id, mode |-> request.mode,
     blocks |-> payload.blocks, totalChars |-> payload.totalChars]

\* Math.ceil(totalChars * 1.5) rounded towards zero instead
estimatedTokens_Floor(fr) ==
    IF ~fr.present THEN 0 ELSE (3 * fr.totalChars) \div 2

\* Math.ceil(totalChars * 1.5): the product is exact in a double, and the
\* ceiling of 3c/2 is (3c + 1) div 2
estimatedTokens(fr) ==
    IF ~fr.present THEN 0 ELSE (3 * fr.totalChars + 1) \div 2

\* the two thresholds taken inclusively
tokenStatus_Inclusive(tokens) ==
    IF tokens <= 50000 THEN "green"
    ELSE IF tokens <= 100000 THEN "yellow"
    ELSE "red"

tokenStatus(tokens) ==
    IF tokens < 50000 THEN "green"
    ELSE IF tokens < 100000 THEN "yellow"
    ELSE "red"

\* the props of PreviewPanel before the first render
NoTokenProps == [estimatedTokens |-> Null, tokenStatus |-> "none"]

\* :estimated-tokens="estimatedTokens" :token-status="tokenStatus"
RenderedTokens(fr) ==
    [estimatedTokens |-> estimatedTokens(fr), tokenStatus |-> tokenStatus(estimatedTokens(fr))]

\* canExecuteFilter that refuses to run while the estimate is red
canExecuteFilter_NotRed ==
    IF isFiltering \/ tokenProps.tokenStatus = "red" THEN FALSE
    ELSE IF filterMode = "condition"
         THEN \/ conditionFilter.keywords # {}
              \/ conditionFilter.senderIds # {}
              \/ conditionFilter.timeRange # NoTimeRange
         ELSE selectedSessionIds # {}

canExecuteFilter ==
    IF isFiltering THEN FALSE
    ELSE IF filterMode = "condition"
         THEN \/ conditionFilter.keywords # {}
              \/ conditionFilter.senderIds # {}
              \/ conditionFilter.timeRange # NoTimeRange
         ELSE selectedSessionIds # {}

\* the start of executeFilter leaving the shown result in place
executeFilterStart_Keep(fr) == fr

\* filterResult.value = null at the start of executeFilter
executeFilterStart(fr) == NoFilterResult

\* the watcher of filterMode runs when the flush finds a value other than
\* the one of the previous flush
watchFilterMode(old, new, fr) == IF new # old THEN NoFilterResult ELSE fr

\* the calls in flight when the mode changes are no longer wanted
Abandon(old, new, calls) ==
    IF new # old
    THEN {[c EXCEPT !.abandoned = TRUE] : c \in calls}
    ELSE calls

\* ------------------------------------------------- updater: the versions
\* a version string is a sequence of characters
Digits == <<"0", "1", "2", "3", "4", "5", "6", "7", "8", "9">>

\* String(n) of a non-negative integer
RECURSIVE NumberToString(_)
NumberToString(n) == IF n < 10 THEN <<Digits[n + 1]>> ELSE NumberToString(n \div 10) \o <<Digits[(n % 10) + 1]>>

\* the version string "major.minor.patch"
FormatVersion(triple) ==
    NumberToString(triple[1]) \o <<".">> \o NumberToString(triple[2]) \o <<".">> \o NumberToString(triple[3])

\* String.prototype.split('.'): the pieces between the dots, `piece` being the one in progress
RECURSIVE SplitFrom(_, _)
SplitFrom(str, piece) ==
    IF str = <<>> THEN <<piece>>
    ELSE IF Head(str) = "." THEN <<piece>> \o SplitFrom(Tail(str), <<>>)
    ELSE SplitFrom(Tail(str), Append(piece, Head(str)))

split(str) == SplitFrom(str, <<>>)

DigitValue(char) == CHOOSE d \in 0..9 : Digits[d + 1] = char

IsDigit(char) == \E d \in 0..9 : Digits[d + 1] = char

RECURSIVE DecimalValue(_, _)
DecimalValue(str, acc) ==
    IF str = <<>> THEN acc ELSE DecimalValue(Tail(str), 10 * acc + DigitValue(Head(str)))

\* Number(piece): the decimal value, 0 for the empty string, NaN for anything else
NaN == [kind |-> "NaN", value |-> 0]
Undefined == [kind |-> "undefined", value |-> 0]

Number(piece) ==
    IF \A k \in DOMAIN piece : IsDigit(piece[k])
    THEN [kind |-> "number", value |-> DecimalValue(piece, 0)]
    ELSE NaN

\* const [major, minor] = str.split('.').map(Number)
MajorMinor(str) ==
    LET parts == split(str)
    IN  [major |-> Number(parts[1]),
         minor |-> IF Len(parts) >= 2 THEN Number(parts[2]) ELSE Undefined]

\* a > b and a === b of JavaScript on these values
Greater(a, b) == a.kind = "number" /\ b.kind = "number" /\ a.value > b.value

StrictEqual(a, b) == a.kind = b.kind /\ a.kind # "NaN" /\ a.value = b.value

isMajorOrMinorUpdate_MajorOnly(current, latest) ==
    Greater(MajorMinor(latest).major, MajorMinor(current).major)

isMajorOrMinorUpdate(current, latest) ==
    LET c == MajorMinor(current)
        l == MajorMinor(latest)
    IN  IF Greater(l.major, c.major) THEN TRUE
        ELSE IF StrictEqual(l.major, c.major) /\ Greater(l.minor, c.minor) THEN TRUE
        ELSE FALSE

\* the numbers a version is made of: MaxVersion has one digit more than the others
VersionNumbers == (MaxVersion - 2)..MaxVersion

VersionTriples == {<<major, minor, patch>> : major \in VersionNumbers, minor \in VersionNumbers,
                                             patch \in 0..1}

Versions == {FormatVersion(triple) : triple \in VersionTriples}

\* ------------------------------------------------- updater: the handlers
\* the versions of the running application and of the releases offered to it
AppVersions == {FormatVersion(<<1, MaxVersion - 1, 1>>)}

OfferedVersions ==
    {FormatVersion(<<1, MaxVersion - 1, 2>>), FormatVersion(<<1, MaxVersion, 0>>)}

\* setManualCheck(value): the value written to isManualCheck
setManualCheck(value) == value

\* autoUpdater.autoDownload = false
autoDownload == FALSE

\* handler of 'update-available': the flags it leaves and whether it opens the dialog
updateAvailable_NoBoxGuard(manual, box, current, latest) ==
    IF ~manual /\ ~isMajorOrMinorUpdate(current, latest)
    THEN [isManualCheck |-> FALSE, showUpdateMessageBox |-> box, dialog |-> FALSE]
    ELSE [isManualCheck |-> FALSE, showUpdateMessageBox |-> TRUE, dialog |-> TRUE]

updateAvailable(manual, box, current, latest) ==
    IF box
    THEN [isManualCheck |-> manual, showUpdateMessageBox |-> box, dialog |-> FALSE]
    ELSE IF ~manual /\ ~isMajorOrMinorUpdate(current, latest)
    THEN [isManualCheck |-> FALSE, showUpdateMessageBox |-> box, dialog |-> FALSE]
    ELSE [isManualCheck |-> FALSE, showUpdateMessageBox |-> TRUE, dialog |-> TRUE]

\* handler of 'update-not-available': the flags it leaves and whether it sends 'show-message'
updateNotAvailable(first, manual) ==
    IF first
    THEN [isFirstShow |-> FALSE, isManualCheck |-> FALSE, message |-> FALSE]
    ELSE [isFirstShow |-> first, isManualCheck |-> FALSE, message |-> manual]

\* .then of the update dialog: the value written to showUpdateMessageBox
dialogClosed(box) == FALSE

\* .then of the update dialog: whether autoUpdater.downloadUpdate() is called
downloadChosen_Any(response) == TRUE

downloadChosen(response) == response = 0

\* .then of the install dialog: whether the quitAndInstall timer is started
installChosen(response) == response = 0

NoUpdHistory ==
    [downloadAgreed |-> FALSE, downloaded |-> FALSE, installAgreed |-> FALSE,
     quitAndInstall |-> FALSE]

UpdOp(op, origin, dialog, message, response) ==
    [op |-> op, origin |-> origin, dialog |-> dialog, message |-> message,
     response |-> response, manual |-> isManualCheck, box |-> showUpdateMessageBox,
     first |-> isFirstShow]

\* checkUpdate(win) has run: the handlers are registered and the 3 s timer is pending
UpdaterInit ==
    /\ appVersion \in AppVersions
    /\ infoVersion = <<>>
    /\ isFirstShow = TRUE
    /\ isManualCheck = FALSE
    /\ showUpdateMessageBox = FALSE
    /\ checkTimer = TRUE
    /\ checking = "none"
    /\ updateDialogs = 0
    /\ downloads = 0
    /\ installDialogs = 0
    /\ quitTimers = 0
    /\ updHistory = NoUpdHistory
    /\ updLast = [op |-> "checkUpdate", origin |-> "none", dialog |-> FALSE, message |-> FALSE,
                  response |-> Null, manual |-> FALSE, box |-> FALSE, first |-> TRUE]

\* the analysis modal, closed
ModalInit ==
    /\ open = FALSE
    /\ hasQuestion = TRUE
    /\ isAnalyzing = FALSE
    /\ currentRequestId = Null
    /\ streams = {}
    /\ aborting = {}
    /\ nextStreamId = 1
    /\ anaLast = [op |-> "setup", request |-> Null]

TabInit ==
    /\ currentSessionId = Null
    /\ filterMode = "condition"
    /\ conditionFilter = EmptyCondition
    /\ selectedSessionIds = {}
    /\ filterResult = NoFilterResult
    /\ isFiltering = FALSE
    /\ inFlight = {}
    /\ nextRequestId = 1
    /\ tokenProps = RenderedTokens(NoFilterResult)
    /\ clearedResult = NoFilterResult
    /\ showAnalysisModal = FALSE
    /\ tabLast = [op |-> "init", request |-> Null, abandoned |-> FALSE]

PreviewInit ==
    /\ result = NoResult
    /\ selectedBlockIndex = 0
    /\ isBlockSwitching = FALSE
    /\ pendingScrollToMessageId = Null
    /\ scrollTimers = <<>>
    /\ switchTimers = <<>>
    /\ scrollToMessageCall = Null
    /\ scrollToIndexCall = NoScrollToIndex
    /\ last = [op |-> "init", arg |-> Null]
    /\ resetFrom = NoReset
    /\ advancesInWindow = 0

\* the session picker bound to the empty list, before it is shown
PanelInit ==
    /\ sessions = <<>>
    /\ isLoading = FALSE
    /\ selectedIds = <<>>
    /\ selectedSet = <<>>
    /\ selLast = [op |-> "setup", arg |-> Null, before |-> <<>>]

\* no date has been formatted yet
EnvInit ==
    /\ timeZone = 0
    /\ yearOption = "none"

Init == PreviewInit /\ TabInit /\ PanelInit /\ EnvInit /\ UpdaterInit /\ ModalInit

\* ---------------------------------------------------------------- actions
\* click on row `index` of the block list
SelectBlock(index) ==
    /\ result.present
    /\ index \in 0..(blockCount - 1)
    /\ selectedBlockIndex' = index
    /\ pendingScrollToMessageId' = selectBlockPending(index, pendingScrollToMessageId)
    /\ scrollTimers' = watchPending(pendingScrollToMessageId, pendingScrollToMessageId', scrollTimers)
    /\ Len(scrollTimers') <= MaxTimers    \* bound on the timers in flight
    /\ scrollToMessageCall' = Null
    /\ scrollToIndexCall' = NoScrollToIndex
    /\ last' = [op |-> "selectBlock", arg |-> index]
    /\ resetFrom' = NoReset
    /\ UNCHANGED <<result, isBlockSwitching, switchTimers, advancesInWindow>>
    /\ UNCHANGED <<tabVars, selVars, envVars, updVars, anaVars>>

\* @reach-bottom of the message list; the handler is called whenever the
\* child emits, so no state of this component excludes it
GoToNextBlock ==
    /\ IF CanAdvance
       THEN /\ isBlockSwitching' = TRUE
            /\ selectedBlockIndex' = selectedBlockIndex + 1
            /\ scrollToIndexCall' = scrollToBlockInList(selectedBlockIndex + 1)
            /\ switchTimers' = Append(switchTimers, [stale |-> FALSE])
            /\ advancesInWindow' = advancesInWindow + 1
       ELSE /\ scrollToIndexCall' = NoScrollToIndex
            /\ UNCHANGED <<isBlockSwitching, selectedBlockIndex, switchTimers, advancesInWindow>>
    /\ scrollToMessageCall' = Null
    /\ last' = [op |-> "goToNextBlock", arg |-> Null]
    /\ resetFrom' = NoReset
    /\ UNCHANGED <<result, pendingScrollToMessageId, scrollTimers>>
    /\ UNCHANGED <<tabVars, selVars, envVars, updVars, anaVars>>

\* @reach-top of the message list
GoToPrevBlock ==
    /\ scrollToMessageCall' = Null
    /\ scrollToIndexCall' = NoScrollToIndex
    /\ last' = [op |-> "goToPrevBlock", arg |-> Null]
    /\ resetFrom' = NoReset
    /\ selectedBlockIndex' = prevBlockIndex(selectedBlockIndex)
    /\ UNCHANGED <<result, isBlockSwitching, pendingScrollToMessageId,
                   scrollTimers, switchTimers, advancesInWindow>>
    /\ UNCHANGED <<tabVars, selVars, envVars, updVars, anaVars>>

\* props.result changes to `r`; the watcher of props.result runs
ReplaceResult(r, op) ==
    LET w == watchResult(selectedBlockIndex, pendingScrollToMessageId)
    IN  /\ result' = r
        /\ selectedBlockIndex' = w.selectedBlockIndex
        /\ pendingScrollToMessageId' = w.pendingScrollToMessageId
        /\ scrollTimers' = MarkStale(watchPending(pendingScrollToMessageId,
                                                  w.pendingScrollToMessageId, scrollTimers))
        /\ switchTimers' = MarkStale(switchTimers)
        /\ scrollToMessageCall' = Null
        /\ scrollToIndexCall' = NoScrollToIndex
        /\ last' = [op |-> op, arg |-> Null]
        /\ resetFrom' = [index |-> selectedBlockIndex, pending |-> pendingScrollToMessageId,
                         switching |-> isBlockSwitching]
        /\ UNCHANGED <<isBlockSwitching, advancesInWindow>>
        /\ UNCHANGED <<tabVars, selVars, envVars, updVars, anaVars>>

\* executeFilter start / filter mode switch: filterResult.value = null
ClearResult ==
    /\ result.present
    /\ ReplaceResult(NoResult, "clearResult")

\* a filter request completes: filterResult.value = result
LoadResult(r) ==
    /\ ~result.present
    /\ ReplaceResult(r, "loadResult")

\* the 300 ms timer of goToNextBlock expires
SwitchTimerFires ==
    /\ switchTimers # <<>>
    /\ isBlockSwitching' = switchTimerCallback(isBlockSwitching)
    /\ switchTimers' = Tail(switchTimers)
    /\ advancesInWindow' = IF Tail(switchTimers) = <<>> THEN 0 ELSE advancesInWindow
    /\ scrollToMessageCall' = Null
    /\ scrollToIndexCall' = NoScrollToIndex
    /\ last' = [op |-> "switchTimer", arg |-> Null]
    /\ resetFrom' = NoReset
    /\ UNCHANGED <<result, selectedBlockIndex, pendingScrollToMessageId, scrollTimers>>
    /\ UNCHANGED <<tabVars, selVars, envVars, updVars, anaVars>>

\* the 100 ms timer of watch(pendingScrollToMessageId) expires
ScrollTimerFires ==
    /\ scrollTimers # <<>>
    /\ scrollToMessageCall' = IF messageListMounted THEN Head(scrollTimers).messageId ELSE Null
    /\ pendingScrollToMessageId' = scrollTimerCallback(pendingScrollToMessageId)
    /\ scrollTimers' = watchPending(pendingScrollToMessageId, pendingScrollToMessageId',
                                    Tail(scrollTimers))
    /\ scrollToIndexCall' = NoScrollToIndex
    /\ last' = [op |-> "scrollTimer", arg |-> Null]
    /\ resetFrom' = NoReset
    /\ UNCHANGED <<result, selectedBlockIndex, isBlockSwitching, switchTimers, advancesInWindow>>
    /\ UNCHANGED <<tabVars, selVars, envVars, updVars, anaVars>>

Next ==
    \/ \E index \in 0..(MaxBlocks - 1) : SelectBlock(index)
    \/ GoToNextBlock
    \/ GoToPrevBlock
    \/ ClearResult
    \/ \E r \in Results : LoadResult(r)
    \/ SwitchTimerFires
    \/ ScrollTimerFires

Spec == Init /\ [][Next]_allVars

\* the same handlers over the results of at most MaxLiveBlocks blocks
LiveResults == {r \in Results : Len(r.blocks) <= MaxLiveBlocks}

FairNext ==
    \/ \E index \in 0..(MaxLiveBlocks - 1) : SelectBlock(index)
    \/ GoToNextBlock
    \/ GoToPrevBlock
    \/ ClearResult
    \/ \E r \in LiveResults : LoadResult(r)
    \/ SwitchTimerFires
    \/ ScrollTimerFires

\* the event loop runs every timer callback whose delay has elapsed
FairSpec ==
    Init /\ [][FairNext]_allVars /\ WF_vars(SwitchTimerFires) /\ WF_vars(ScrollTimerFires)

\* ------------------------------------------------- FilterTab: handlers
\* the record of the handler that ran in the last step
TabOp(op, request, abandoned) == [op |-> op, request |-> request, abandoned |-> abandoned]

\* sessionStore.currentSessionId changes (a chat is opened or closed)
SelectSession(s) ==
    /\ s # currentSessionId
    /\ currentSessionId' = s
    /\ tabLast' = TabOp("selectSession", Null, FALSE)
    /\ UNCHANGED <<filterMode, conditionFilter, selectedSessionIds, filterResult,
                   isFiltering, inFlight, nextRequestId, tokenProps>>
    /\ UNCHANGED clearedResult
    /\ UNCHANGED showAnalysisModal
    /\ UNCHANGED <<vars, selVars, envVars, updVars, anaVars>>

\* v-model:filter of ConditionPanel
EditCondition(c) ==
    /\ conditionFilter' = c
    /\ tabLast' = TabOp("editCondition", Null, FALSE)
    /\ UNCHANGED <<currentSessionId, filterMode, selectedSessionIds, filterResult,
                   isFiltering, inFlight, nextRequestId, tokenProps>>
    /\ UNCHANGED clearedResult
    /\ UNCHANGED showAnalysisModal
    /\ UNCHANGED <<vars, selVars, envVars, updVars, anaVars>>

\* v-model:selected-ids of SessionPanel
EditSelection(ids) ==
    /\ selectedSessionIds' = ids
    /\ tabLast' = TabOp("editSelection", Null, FALSE)
    /\ UNCHANGED <<currentSessionId, filterMode, conditionFilter, filterResult,
                   isFiltering, inFlight, nextRequestId, tokenProps>>
    /\ UNCHANGED clearedResult
    /\ UNCHANGED showAnalysisModal
    /\ UNCHANGED <<vars, selVars, envVars, updVars, anaVars>>

\* click on a mode button: filterMode = m, then the watcher of filterMode
SwitchMode(m) ==
    /\ filterMode' = m
    /\ filterResult' = watchFilterMode(filterMode, m, filterResult)
    /\ inFlight' = Abandon(filterMode, m, inFlight)
    /\ tokenProps' = RenderedTokens(filterResult')
    /\ tabLast' = TabOp("switchMode", Null, FALSE)
    /\ UNCHANGED <<currentSessionId, conditionFilter, selectedSessionIds,
                   isFiltering, nextRequestId>>
    /\ UNCHANGED clearedResult
    /\ UNCHANGED showAnalysisModal
    /\ UNCHANGED <<vars, selVars, envVars, updVars, anaVars>>

\* @load of FilterHistory
LoadHistoryCondition(h) ==
    /\ filterMode' = h.mode
    /\ conditionFilter' = IF h.mode = "condition" /\ h.hasCondition
                          THEN h.conditionFilter ELSE conditionFilter
    /\ selectedSessionIds' = IF ~(h.mode = "condition" /\ h.hasCondition)
                                /\ h.mode = "session" /\ h.hasSessions
                             THEN h.selectedSessionIds ELSE selectedSessionIds
    /\ filterResult' = watchFilterMode(filterMode, h.mode, filterResult)
    /\ inFlight' = Abandon(filterMode, h.mode, inFlight)
    /\ tokenProps' = RenderedTokens(filterResult')
    /\ tabLast' = TabOp("loadHistoryCondition", Null, FALSE)
    /\ UNCHANGED <<currentSessionId, isFiltering, nextRequestId>>
    /\ UNCHANGED clearedResult
    /\ UNCHANGED showAnalysisModal
    /\ UNCHANGED <<vars, selVars, envVars, updVars, anaVars>>

\* click on the execute button (disabled unless canExecuteFilter): the part
\* of executeFilter up to its await, or all of it when it returns early
ExecuteFilter ==
    /\ canExecuteFilter
    /\ nextRequestId <= MaxRequests    \* bound on the calls of the service
    /\ IF currentSessionId = Null
       THEN /\ tabLast' = TabOp("executeFilter", Null, FALSE)
            /\ UNCHANGED <<filterResult, isFiltering, inFlight, nextRequestId, tokenProps,
                           clearedResult>>
       ELSE /\ filterResult' = executeFilterStart(filterResult)
            /\ clearedResult' = IF filterResult.present THEN filterResult ELSE clearedResult
            /\ tokenProps' = RenderedTokens(filterResult')
            /\ IF filterMode = "session" /\ selectedSessionIds = {}
               THEN /\ isFiltering' = FALSE
                    /\ tabLast' = TabOp("executeFilter", Null, FALSE)
                    /\ UNCHANGED <<inFlight, nextRequestId>>
               ELSE /\ isFiltering' = TRUE
                    /\ inFlight' = inFlight \cup {[id |-> nextRequestId, mode |-> filterMode,
                                                    abandoned |-> FALSE]}
                    /\ nextRequestId' = nextRequestId + 1
                    /\ tabLast' = TabOp("executeFilter", nextRequestId, FALSE)
    /\ UNCHANGED <<currentSessionId, filterMode, conditionFilter, selectedSessionIds>>
    /\ UNCHANGED showAnalysisModal
    /\ UNCHANGED <<vars, selVars, envVars, updVars, anaVars>>

\* the awaited call resolves: filterResult.value = result, then finally
RequestSucceeds(call, payload) ==
    /\ call \in inFlight
    /\ filterResult' = ResultOf(call, payload)
    /\ isFiltering' = FALSE
    /\ inFlight' = inFlight \ {call}
    /\ tokenProps' = RenderedTokens(filterResult')
    /\ tabLast' = TabOp("requestSucceeds", call.id, call.abandoned)
    /\ UNCHANGED <<currentSessionId, filterMode, conditionFilter, selectedSessionIds,
                   nextRequestId>>
    /\ UNCHANGED clearedResult
    /\ UNCHANGED showAnalysisModal
    /\ UNCHANGED <<vars, selVars, envVars, updVars, anaVars>>

\* the awaited call rejects: catch logs, then finally
RequestFails(call) ==
    /\ call \in inFlight
    /\ isFiltering' = FALSE
    /\ inFlight' = inFlight \ {call}
    /\ tabLast' = TabOp("requestFails", call.id, call.abandoned)
    /\ UNCHANGED <<currentSessionId, filterMode, conditionFilter, selectedSessionIds,
                   filterResult, nextRequestId, tokenProps>>
    /\ UNCHANGED clearedResult
    /\ UNCHANGED showAnalysisModal
    /\ UNCHANGED <<vars, selVars, envVars, updVars, anaVars>>

\* v-if of the export and local analysis buttons under the preview
actionsOffered == filterResult.present /\ filterResult.blocks > 0

\* click on the export button: the markdown file is downloaded
ExportFeedPack ==
    /\ actionsOffered
    /\ tabLast' = IF ~filterResult.present \/ filterResult.blocks = 0
                  THEN TabOp("exportFeedPack", Null, FALSE)
                  ELSE TabOp("exportFeedPack", filterResult.request, FALSE)
    /\ UNCHANGED <<currentSessionId, filterMode, conditionFilter, selectedSessionIds,
                   filterResult, isFiltering, inFlight, nextRequestId, tokenProps,
                   clearedResult, showAnalysisModal>>
    /\ UNCHANGED <<vars, selVars, envVars, updVars, anaVars>>

\* click on the local analysis button
OpenLocalAnalysis ==
    /\ actionsOffered
    /\ showAnalysisModal' = IF ~filterResult.present \/ filterResult.blocks = 0
                            THEN showAnalysisModal ELSE TRUE
    /\ tabLast' = TabOp("openLocalAnalysis", Null, FALSE)
    /\ UNCHANGED <<currentSessionId, filterMode, conditionFilter, selectedSessionIds,
                   filterResult, isFiltering, inFlight, nextRequestId, tokenProps,
                   clearedResult>>
    /\ UNCHANGED <<vars, selVars, envVars, updVars, anaVars>>

\* v-model:open of LocalAnalysisModal: the modal is closed
CloseLocalAnalysis ==
    /\ showAnalysisModal
    /\ showAnalysisModal' = FALSE
    /\ tabLast' = TabOp("closeLocalAnalysis", Null, FALSE)
    /\ UNCHANGED <<currentSessionId, filterMode, conditionFilter, selectedSessionIds,
                   filterResult, isFiltering, inFlight, nextRequestId, tokenProps,
                   clearedResult>>
    /\ UNCHANGED <<vars, selVars, envVars, updVars, anaVars>>

\* the calls a state can have in flight
Calls == [id : 1..MaxRequests, mode : {"condition", "session"}, abandoned : BOOLEAN]

TabNext ==
    \/ \E s \in ChatSessionIds \cup {Null} : SelectSession(s)
    \/ \E c \in Conditions : EditCondition(c)
    \/ \E ids \in SUBSET ChatSessionIds : EditSelection(ids)
    \/ \E m \in {"condition", "session"} : SwitchMode(m)
    \/ \E h \in HistoryConditions : LoadHistoryCondition(h)
    \/ ExecuteFilter
    \/ \E call \in Calls, payload \in ServicePayloads : RequestSucceeds(call, payload)
    \/ \E call \in Calls : RequestFails(call)
    \/ ExportFeedPack
    \/ OpenLocalAnalysis
    \/ CloseLocalAnalysis

TabSpec == Init /\ [][TabNext]_allVars

\* ------------------------------------------------ token estimate: inputs
\* every result size up to MaxChars, and no result
TokenResults ==
    {NoFilterResult} \cup
    {ResultOf([id |-> 1, mode |-> "condition"], [blocks |-> 1, totalChars |-> chars]) :
        chars \in 0..MaxChars}

TokenInit ==
    /\ PreviewInit
    /\ PanelInit
    /\ EnvInit
    /\ UpdaterInit
    /\ ModalInit
    /\ currentSessionId = 1
    /\ filterMode = "condition"
    /\ conditionFilter = EmptyCondition
    /\ selectedSessionIds = {}
    /\ filterResult \in TokenResults
    /\ isFiltering = FALSE
    /\ inFlight = {}
    /\ nextRequestId = 2
    /\ tokenProps = NoTokenProps
    /\ clearedResult = NoFilterResult
    /\ showAnalysisModal = FALSE
    /\ tabLast = TabOp("requestSucceeds", 1, FALSE)

\* the render that follows the assignment of filterResult
RenderTokens ==
    /\ tokenProps' = RenderedTokens(filterResult)
    /\ tabLast' = TabOp("render", Null, FALSE)
    /\ UNCHANGED <<currentSessionId, filterMode, conditionFilter, selectedSessionIds,
                   filterResult, isFiltering, inFlight, nextRequestId>>
    /\ UNCHANGED clearedResult
    /\ UNCHANGED showAnalysisModal
    /\ UNCHANGED <<vars, selVars, envVars, updVars, anaVars>>

TokenNext == RenderTokens

TokenSpec == TokenInit /\ [][TokenNext]_allVars

\* ------------------------------------------- SessionPanel: the selector
\* the members of an array or of a Set kept in insertion order
SetOf(list) == {list[i] : i \in DOMAIN list}

\* new Set(list): the first occurrence of each value, in order
RECURSIVE NewSet(_)
NewSet(list) ==
    IF list = <<>> THEN <<>>
    ELSE LET front == NewSet(SubSeq(list, 1, Len(list) - 1))
             x == list[Len(list)]
         IN  IF x \in SetOf(front) THEN front ELSE Append(front, x)

\* Set.prototype.add / delete
SetAdd(set, id) == IF id \in SetOf(set) THEN set ELSE Append(set, id)
SetDelete(set, id) == SelectSeq(set, LAMBDA x : x # id)

\* Array.from(set)
ArrayFrom(set) == set

\* start times of the sessions the session service returns: one on the
\* first day, one on the second
StartSamples == {3600, 90000}

\* new Date(startTs * 1000).toLocaleDateString(): the calendar day, here
\* numbered from the epoch
DateOf(startTs) == startTs \div 86400

\* the lists window.sessionApi.getSessions may resolve to
SessionLists ==
    UNION { { [i \in 1..n |-> [id |-> i, startTs |-> st[i]]] : st \in [1..n -> StartSamples] } :
            n \in 0..MaxSessions }

\* the values the owner of the list can bind to it (a saved condition may
\* repeat an id)
OwnerIds == {1, 2}
OwnerLists ==
    UNION { [1..n -> OwnerIds] : n \in 0..MaxListLen }

\* Object.keys(groups) sorted latest date first
RECURSIVE SortedDates(_)
SortedDates(dates) ==
    IF dates = {} THEN <<>>
    ELSE LET latest == CHOOSE d \in dates : \A e \in dates : e <= d
         IN  <<latest>> \o SortedDates(dates \ {latest})

\* the sessions of one date, in the order of the list
SessionsOn(list, date) == SelectSeq(list, LAMBDA session : DateOf(session.startTs) = date)

RECURSIVE FlattenDates(_, _)
FlattenDates(list, dates) ==
    IF dates = <<>> THEN <<>>
    ELSE LET group == SessionsOn(list, Head(dates))
         IN  <<[type |-> "date", date |-> Head(dates), id |-> Null, sessionCount |-> Len(group)]>>
             \o [k \in 1..Len(group) |->
                    [type |-> "session", date |-> Head(dates), id |-> group[k].id, sessionCount |-> Null]]
             \o FlattenDates(list, Tail(dates))

flatItems == FlattenDates(sessions, SortedDates({DateOf(sessions[i].startTs) : i \in DOMAIN sessions}))

\* the ids of the session items of a date, in list order
getSessionIdsForDate(date) ==
    LET items == SelectSeq(flatItems, LAMBDA item : item.type = "session" /\ item.date = date)
    IN  [k \in 1..Len(items) |-> items[k].id]

isSelected(id) == id \in SetOf(selectedSet)

\* sessionIds.every((id) => selectedSet.value.has(id))
EveryIdSelected(sessionIds) == \A k \in DOMAIN sessionIds : isSelected(sessionIds[k])

\* isDateFullySelected without the test of the length
isDateFullySelected_Vacuous(date) == EveryIdSelected(getSessionIdsForDate(date))

isDateFullySelected(date) ==
    LET sessionIds == getSessionIdsForDate(date)
    IN  Len(sessionIds) > 0 /\ EveryIdSelected(sessionIds)

RECURSIVE DeleteAll(_, _)
DeleteAll(set, ids) == IF ids = <<>> THEN set ELSE DeleteAll(SetDelete(set, Head(ids)), Tail(ids))

RECURSIVE AddAll(_, _)
AddAll(set, ids) == IF ids = <<>> THEN set ELSE AddAll(SetAdd(set, Head(ids)), Tail(ids))

\* toggleSession that only ever adds
toggleSessionSet_AddOnly(set, id) == SetAdd(set, id)

\* newSet of toggleSession
toggleSessionSet(set, id) ==
    IF id \in SetOf(set) THEN SetDelete(set, id) ELSE SetAdd(set, id)

\* selectDate that always selects the whole date
selectDateSet_AlwaysAdd(set, sessionIds) == AddAll(set, sessionIds)

\* selectDate that stops after the first id of the date
selectDateSet_FirstOnly(set, sessionIds) ==
    IF \A k \in DOMAIN sessionIds : sessionIds[k] \in SetOf(set)
    THEN DeleteAll(set, SubSeq(sessionIds, 1, 1))
    ELSE AddAll(set, SubSeq(sessionIds, 1, 1))

\* selectDate that selects the date in place of the selection
selectDateSet_Replace(set, sessionIds) ==
    IF \A k \in DOMAIN sessionIds : sessionIds[k] \in SetOf(set)
    THEN DeleteAll(set, sessionIds)
    ELSE sessionIds

\* newSet of selectDate
selectDateSet(set, sessionIds) ==
    IF \A k \in DOMAIN sessionIds : sessionIds[k] \in SetOf(set)
    THEN DeleteAll(set, sessionIds)
    ELSE AddAll(set, sessionIds)

\* the watcher of selectedIds that runs only at setup
watchSelectedIds_SetupOnly(newIds, set) == set

\* watch(selectedIds, (newIds) => { selectedSet.value = new Set(newIds) })
watchSelectedIds(newIds, set) == NewSet(newIds)

\* the record of a handler run: its name, its argument and the set before
SelOp(op, arg) == [op |-> op, arg |-> arg, before |-> selectedSet]

\* setup with the list the owner binds, the immediate watcher, and
\* onMounted: loadSessions awaits getSessions
SelectorInit ==
    /\ PreviewInit
    /\ TabInit
    /\ EnvInit
    /\ UpdaterInit
    /\ ModalInit
    /\ sessions = <<>>
    /\ isLoading = TRUE
    /\ selectedIds \in OwnerLists
    /\ selectedSet = watchSelectedIds(selectedIds, <<>>)
    /\ selLast = [op |-> "setup", arg |-> Null, before |-> <<>>]

\* getSessions resolves
SessionsLoaded(list) ==
    /\ isLoading
    /\ sessions' = list
    /\ isLoading' = FALSE
    /\ selLast' = SelOp("loadSessions", Null)
    /\ UNCHANGED <<selectedIds, selectedSet>>
    /\ UNCHANGED <<vars, tabVars, envVars, updVars, anaVars>>

\* getSessions rejects
SessionsFailed ==
    /\ isLoading
    /\ isLoading' = FALSE
    /\ selLast' = SelOp("loadSessionsFailed", Null)
    /\ UNCHANGED <<sessions, selectedIds, selectedSet>>
    /\ UNCHANGED <<vars, tabVars, envVars, updVars, anaVars>>

\* @change of the checkbox of a rendered session row, then the watcher
ToggleSession(id) ==
    /\ ~isLoading
    /\ \E k \in DOMAIN flatItems : flatItems[k].type = "session" /\ flatItems[k].id = id
    /\ LET newSet == toggleSessionSet(selectedSet, id)
       IN  /\ selectedIds' = ArrayFrom(newSet)
           /\ selectedSet' = watchSelectedIds(selectedIds', newSet)
    /\ selLast' = SelOp("toggleSession", id)
    /\ UNCHANGED <<sessions, isLoading>>
    /\ UNCHANGED <<vars, tabVars, envVars, updVars, anaVars>>

\* @click / @change of a rendered date header, then the watcher
SelectDate(date) ==
    /\ ~isLoading
    /\ \E k \in DOMAIN flatItems : flatItems[k].type = "date" /\ flatItems[k].date = date
    /\ LET newSet == selectDateSet(selectedSet, getSessionIdsForDate(date))
       IN  /\ selectedIds' = ArrayFrom(newSet)
           /\ selectedSet' = watchSelectedIds(selectedIds', newSet)
    /\ selLast' = SelOp("selectDate", date)
    /\ UNCHANGED <<sessions, isLoading>>
    /\ UNCHANGED <<vars, tabVars, envVars, updVars, anaVars>>

\* the owner assigns the bound list (loadHistoryCondition in session mode
\* while the panel is shown), then the watcher
OwnerWritesList(ids) ==
    /\ selectedIds' = ids
    /\ selectedSet' = watchSelectedIds(ids, selectedSet)
    /\ selLast' = SelOp("ownerWritesList", Null)
    /\ UNCHANGED <<sessions, isLoading>>
    /\ UNCHANGED <<vars, tabVars, envVars, updVars, anaVars>>

SelectorNext ==
    \/ \E list \in SessionLists : SessionsLoaded(list)
    \/ SessionsFailed
    \/ \E id \in 1..MaxSessions : ToggleSession(id)
    \/ \E date \in {DateOf(st) : st \in StartSamples} : SelectDate(date)
    \/ \E ids \in OwnerLists : OwnerWritesList(ids)

SelectorSpec == SelectorInit /\ [][SelectorNext]_allVars

\* ------------------------------------------------ PreviewPanel: the year
\* the offsets from UTC of the hosts: eight hours behind, UTC, eight ahead
TimeZones == {0 - 28800, 0, 28800}

\* timestamps (seconds) one second before and at the start of 2024 in each
\* of the time zones, and the start of 2025 in UTC
TsSamples ==
    {1704038399, 1704038400, 1704067199, 1704067200, 1704095999, 1704096000, 1735689600}

IsLeapYear(year) == (year % 4 = 0 /\ year % 100 # 0) \/ year % 400 = 0

DaysIn(year) == IF IsLeapYear(year) THEN 366 ELSE 365

\* the year that holds day number `days` counted from 1 January of `year`
RECURSIVE YearFrom(_, _)
YearFrom(year, days) ==
    IF days < DaysIn(year) THEN year ELSE YearFrom(year + 1, days - DaysIn(year))

\* getFullYear read in UTC whatever the time zone of the host
getFullYear_UTC(ts) == YearFrom(1970, ts \div 86400)

\* new Date(ts * 1000).getFullYear(): the calendar year of the local time
getFullYear(ts) == YearFrom(1970, (ts + timeZone) \div 86400)

\* the comparison made within the first block only
shouldShowYear_FirstBlock ==
    IF ~result.present \/ Len(result.blocks) = 0 THEN FALSE
    ELSE getFullYear(result.blocks[1].startTs) # getFullYear(result.blocks[1].endTs)

shouldShowYear ==
    IF ~result.present \/ Len(result.blocks) = 0 THEN FALSE
    ELSE LET blocks == result.blocks
             firstYear == getFullYear(blocks[1].startTs)
             lastYear == getFullYear(blocks[Len(blocks)].endTs)
         IN  firstYear # lastYear

\* a block of one hit message that spans the given timestamps
MakeTimedBlock(id, startTs, endTs) ==
    [startTs |-> startTs, endTs |-> endTs,
     messages |-> <<[id |-> id, isHit |-> TRUE]>>, hitCount |-> 1]

\* results of up to MaxYearBlocks blocks in chronological order
YearResults ==
    UNION { { [present |-> TRUE,
               blocks |-> [b \in 1..n |-> MakeTimedBlock(b, ts[2 * b - 1], ts[2 * b])]] :
                ts \in {f \in [1..(2 * n) -> TsSamples] :
                           \A i \in 1..(2 * n - 1) : f[i] <= f[i + 1]} } :
            n \in 0..MaxYearBlocks }
    \cup {NoResult}

\* the panel showing one of the results on a host in one of the time zones
YearInit ==
    /\ result \in YearResults
    /\ selectedBlockIndex = 0
    /\ isBlockSwitching = FALSE
    /\ pendingScrollToMessageId = Null
    /\ scrollTimers = <<>>
    /\ switchTimers = <<>>
    /\ scrollToMessageCall = Null
    /\ scrollToIndexCall = NoScrollToIndex
    /\ last = [op |-> IF result.present THEN "loadResult" ELSE "init", arg |-> Null]
    /\ resetFrom = NoReset
    /\ advancesInWindow = 0
    /\ TabInit
    /\ PanelInit
    /\ UpdaterInit
    /\ ModalInit
    /\ timeZone \in TimeZones
    /\ yearOption = "none"

\* formatDateTime, called by the render of a row of the block list
FormatDateTime ==
    /\ result.present
    /\ blockCount > 0
    /\ yearOption' = IF shouldShowYear THEN "numeric" ELSE "absent"
    /\ UNCHANGED timeZone
    /\ UNCHANGED <<vars, tabVars, selVars, updVars, anaVars>>

YearNext ==
    \/ FormatDateTime
    \/ \E index \in 0..(MaxYearBlocks - 1) : SelectBlock(index)
    \/ ScrollTimerFires

YearSpec == YearInit /\ [][YearNext]_allVars

\* ------------------------------------------------- updater: the events
\* the application runs until quitAndInstall has been called
Running == ~updHistory.quitAndInstall

\* frame of the events that touch neither a dialog nor a download
UpdaterIdleFrame == UNCHANGED <<appVersion, updateDialogs, downloads, installDialogs, quitTimers, updHistory>>

\* the 3 s timer of checkUpdate expires: autoUpdater.checkForUpdates().
\* electron-updater runs one check at a time; a call made while a check is in
\* progress is answered by that check.
CheckTimerFires ==
    /\ Running
    /\ checkTimer
    /\ checkTimer' = FALSE
    /\ checking' = IF checking = "none" THEN "automatic" ELSE checking
    /\ updLast' = UpdOp("checkTimer", checking', FALSE, FALSE, Null)
    /\ UNCHANGED <<infoVersion, isFirstShow, isManualCheck, showUpdateMessageBox>>
    /\ UpdaterIdleFrame
    /\ UNCHANGED <<vars, tabVars, selVars, envVars, anaVars>>

\* the user asks for a check: setManualCheck(true), then autoUpdater.checkForUpdates();
\* a check already in progress answers this request as well
ManualCheck ==
    /\ Running
    /\ isManualCheck' = setManualCheck(TRUE)
    /\ checking' = "manual"
    /\ updLast' = UpdOp("manualCheck", "manual", FALSE, FALSE, Null)
    /\ UNCHANGED <<infoVersion, isFirstShow, showUpdateMessageBox, checkTimer>>
    /\ UpdaterIdleFrame
    /\ UNCHANGED <<vars, tabVars, selVars, envVars, anaVars>>

\* the check in progress finds the release `version`: 'update-available'
UpdateAvailable(version) ==
    LET after == updateAvailable(isManualCheck, showUpdateMessageBox, appVersion, version)
    IN  /\ Running
        /\ checking # "none"
        /\ updateDialogs <= MaxDialogs    \* bound on the open dialogs
        /\ ~autoDownload \/ downloads < MaxDownloads
        /\ checking' = "none"
        /\ infoVersion' = version
        /\ isManualCheck' = after.isManualCheck
        /\ showUpdateMessageBox' = after.showUpdateMessageBox
        /\ updateDialogs' = IF after.dialog THEN updateDialogs + 1 ELSE updateDialogs
        /\ downloads' = IF autoDownload THEN downloads + 1 ELSE downloads
        /\ updLast' = UpdOp("updateAvailable", checking, after.dialog, FALSE, Null)
        /\ UNCHANGED <<appVersion, isFirstShow, checkTimer, installDialogs, quitTimers, updHistory>>
        /\ UNCHANGED <<vars, tabVars, selVars, envVars, anaVars>>

\* the check in progress finds no release: 'update-not-available'
UpdateNotAvailable ==
    LET after == updateNotAvailable(isFirstShow, isManualCheck)
    IN  /\ Running
        /\ checking # "none"
        /\ checking' = "none"
        /\ isFirstShow' = after.isFirstShow
        /\ isManualCheck' = after.isManualCheck
        /\ updLast' = UpdOp("updateNotAvailable", checking, FALSE, after.message, Null)
        /\ UNCHANGED <<infoVersion, showUpdateMessageBox, checkTimer>>
        /\ UpdaterIdleFrame
        /\ UNCHANGED <<vars, tabVars, selVars, envVars, anaVars>>

\* the check in progress fails: 'error'
CheckFails ==
    /\ Running
    /\ checking # "none"
    /\ checking' = "none"
    /\ isManualCheck' = FALSE
    /\ updLast' = UpdOp("error", checking, FALSE, FALSE, Null)
    /\ UNCHANGED <<infoVersion, isFirstShow, showUpdateMessageBox, checkTimer>>
    /\ UpdaterIdleFrame
    /\ UNCHANGED <<vars, tabVars, selVars, envVars, anaVars>>

\* the user answers the update dialog: 0 is "download now", 1 is "cancel"
CloseUpdateDialog(response) ==
    /\ Running
    /\ updateDialogs > 0
    /\ downloadChosen(response) => downloads < MaxDownloads    \* bound on the downloads
    /\ updateDialogs' = updateDialogs - 1
    /\ showUpdateMessageBox' = dialogClosed(showUpdateMessageBox)
    /\ downloads' = IF downloadChosen(response) THEN downloads + 1 ELSE downloads
    /\ updHistory' = IF response = 0 THEN [updHistory EXCEPT !.downloadAgreed = TRUE] ELSE updHistory
    /\ updLast' = UpdOp("closeUpdateDialog", "none", FALSE, FALSE, response)
    /\ UNCHANGED <<appVersion, infoVersion, isFirstShow, isManualCheck, checkTimer, checking,
                   installDialogs, quitTimers>>
    /\ UNCHANGED <<vars, tabVars, selVars, envVars, anaVars>>

\* a download completes: 'update-downloaded' opens the install dialog
DownloadCompletes ==
    /\ Running
    /\ downloads > 0
    /\ installDialogs < MaxDialogs    \* bound on the open dialogs
    /\ downloads' = downloads - 1
    /\ installDialogs' = installDialogs + 1
    /\ updHistory' = [updHistory EXCEPT !.downloaded = TRUE]
    /\ updLast' = UpdOp("updateDownloaded", "none", TRUE, FALSE, Null)
    /\ UNCHANGED <<appVersion, infoVersion, isFirstShow, isManualCheck, showUpdateMessageBox,
                   checkTimer, checking, updateDialogs, quitTimers>>
    /\ UNCHANGED <<vars, tabVars, selVars, envVars, anaVars>>

\* a download fails: the promise of downloadUpdate rejects and 'error' is emitted
DownloadFails ==
    /\ Running
    /\ downloads > 0
    /\ downloads' = downloads - 1
    /\ isManualCheck' = FALSE
    /\ updLast' = UpdOp("error", "none", FALSE, FALSE, Null)
    /\ UNCHANGED <<appVersion, infoVersion, isFirstShow, showUpdateMessageBox, checkTimer,
                   checking, updateDialogs, installDialogs, quitTimers, updHistory>>
    /\ UNCHANGED <<vars, tabVars, selVars, envVars, anaVars>>

\* the user answers the install dialog: 0 is "install", 1 is "later", 2 is the cancel id
CloseInstallDialog(response) ==
    /\ Running
    /\ installDialogs > 0
    /\ installChosen(response) => quitTimers < MaxDialogs    \* bound on the pending timers
    /\ installDialogs' = installDialogs - 1
    /\ quitTimers' = IF installChosen(response) THEN quitTimers + 1 ELSE quitTimers
    /\ updHistory' = IF response = 0 THEN [updHistory EXCEPT !.installAgreed = TRUE] ELSE updHistory
    /\ updLast' = UpdOp("closeInstallDialog", "none", FALSE, FALSE, response)
    /\ UNCHANGED <<appVersion, infoVersion, isFirstShow, isManualCheck, showUpdateMessageBox,
                   checkTimer, checking, updateDialogs, downloads>>
    /\ UNCHANGED <<vars, tabVars, selVars, envVars, anaVars>>

\* the 100 ms timer of the install branch expires: autoUpdater.quitAndInstall()
QuitTimerFires ==
    /\ Running
    /\ quitTimers > 0
    /\ quitTimers' = quitTimers - 1
    /\ updHistory' = [updHistory EXCEPT !.quitAndInstall = TRUE]
    /\ updLast' = UpdOp("quitAndInstall", "none", FALSE, FALSE, Null)
    /\ UNCHANGED <<appVersion, infoVersion, isFirstShow, isManualCheck, showUpdateMessageBox,
                   checkTimer, checking, updateDialogs, downloads, installDialogs>>
    /\ UNCHANGED <<vars, tabVars, selVars, envVars, anaVars>>

UpdaterNext ==
    \/ CheckTimerFires
    \/ ManualCheck
    \/ \E version \in OfferedVersions : UpdateAvailable(version)
    \/ UpdateNotAvailable
    \/ CheckFails
    \/ \E response \in 0..1 : CloseUpdateDialog(response)
    \/ DownloadCompletes
    \/ DownloadFails
    \/ \E response \in 0..2 : CloseInstallDialog(response)
    \/ QuitTimerFires

UpdaterSpec == Init /\ [][UpdaterNext]_allVars

\* ------------------------------------------- updater: version comparison
\* an automatic check is in progress for any pair of installed and offered version
VersionInit ==
    /\ PreviewInit
    /\ TabInit
    /\ PanelInit
    /\ EnvInit
    /\ ModalInit
    /\ appVersion \in Versions
    /\ infoVersion \in Versions
    /\ isFirstShow = TRUE
    /\ isManualCheck = FALSE
    /\ showUpdateMessageBox = FALSE
    /\ checkTimer = FALSE
    /\ checking = "automatic"
    /\ updateDialogs = 0
    /\ downloads = 0
    /\ installDialogs = 0
    /\ quitTimers = 0
    /\ updHistory = NoUpdHistory
    /\ updLast = [op |-> "checkTimer", origin |-> "automatic", dialog |-> FALSE,
                  message |-> FALSE, response |-> Null, manual |-> FALSE, box |-> FALSE,
                  first |-> TRUE]

\* the check answers with the offered version
VersionNext == UpdateAvailable(infoVersion)

VersionSpec == VersionInit /\ [][VersionNext]_allVars

\* ------------------------------------------- LocalAnalysisModal: handlers
AnaOp(op, request) == [op |-> op, request |-> request]

\* the part of abortAnalysis that runs before its await: window.agentApi.abort(currentRequestId)
abortAnalysisStart(id, calls) == IF id # Null THEN calls \cup {id} ELSE calls

\* the requests after the agent has been asked to abort request `id`
MarkAborted(id, requests) ==
    {IF request.id = id THEN [request EXCEPT !.aborted = TRUE] ELSE request : request \in requests}

\* the modal is opened by its owner (v-model:open)
OpenModal ==
    /\ ~open
    /\ open' = TRUE
    /\ anaLast' = AnaOp("open", Null)
    /\ UNCHANGED <<hasQuestion, isAnalyzing, currentRequestId, streams, aborting, nextStreamId>>
    /\ UNCHANGED <<vars, tabVars, selVars, envVars, updVars>>

\* the question is typed or erased
EditQuestion(present) ==
    /\ open
    /\ hasQuestion' = present
    /\ anaLast' = AnaOp("editQuestion", Null)
    /\ UNCHANGED <<open, isAnalyzing, currentRequestId, streams, aborting, nextStreamId>>
    /\ UNCHANGED <<vars, tabVars, selVars, envVars, updVars>>

\* click on the start button, which is disabled while isAnalyzing
ExecuteAnalysis ==
    /\ open
    /\ ~isAnalyzing
    /\ nextStreamId <= MaxStreams    \* bound on the requests
    /\ IF hasQuestion
       THEN /\ isAnalyzing' = TRUE
            /\ streams' = streams \cup {[id |-> nextStreamId, aborted |-> FALSE]}
            /\ currentRequestId' = nextStreamId
            /\ nextStreamId' = nextStreamId + 1
            /\ anaLast' = AnaOp("executeAnalysis", nextStreamId)
       ELSE /\ anaLast' = AnaOp("executeAnalysis", Null)
            /\ UNCHANGED <<isAnalyzing, streams, currentRequestId, nextStreamId>>
    /\ UNCHANGED <<open, hasQuestion, aborting>>
    /\ UNCHANGED <<vars, tabVars, selVars, envVars, updVars>>

\* click on the stop button, which is shown while isAnalyzing
AbortAnalysis ==
    /\ open
    /\ isAnalyzing
    /\ aborting' = abortAnalysisStart(currentRequestId, aborting)
    /\ streams' = MarkAborted(currentRequestId, streams)
    /\ anaLast' = AnaOp("abortAnalysis", currentRequestId)
    /\ UNCHANGED <<open, hasQuestion, isAnalyzing, currentRequestId, nextStreamId>>
    /\ UNCHANGED <<vars, tabVars, selVars, envVars, updVars>>

\* the modal is closed; watch(open) calls abortAnalysis while isAnalyzing
CloseModal ==
    /\ open
    /\ open' = FALSE
    /\ aborting' = IF isAnalyzing THEN abortAnalysisStart(currentRequestId, aborting) ELSE aborting
    /\ streams' = IF isAnalyzing THEN MarkAborted(currentRequestId, streams) ELSE streams
    /\ anaLast' = AnaOp("close", IF isAnalyzing THEN currentRequestId ELSE Null)
    /\ UNCHANGED <<hasQuestion, isAnalyzing, currentRequestId, nextStreamId>>
    /\ UNCHANGED <<vars, tabVars, selVars, envVars, updVars>>

\* `await window.agentApi.abort(id)` returns or throws: the rest of abortAnalysis
AbortReturns(id) ==
    /\ id \in aborting
    /\ aborting' = aborting \ {id}
    /\ isAnalyzing' = FALSE
    /\ currentRequestId' = Null
    /\ anaLast' = AnaOp("abortReturns", id)
    /\ UNCHANGED <<open, hasQuestion, streams, nextStreamId>>
    /\ UNCHANGED <<vars, tabVars, selVars, envVars, updVars>>

\* the promise of a request settles: the finally block of executeAnalysis
StreamSettles(request) ==
    /\ request \in streams
    /\ streams' = streams \ {request}
    /\ isAnalyzing' = FALSE
    /\ currentRequestId' = Null
    /\ anaLast' = AnaOp("streamSettles", request.id)
    /\ UNCHANGED <<open, hasQuestion, aborting, nextStreamId>>
    /\ UNCHANGED <<vars, tabVars, selVars, envVars, updVars>>

StreamCalls == [id : 1..MaxStreams, aborted : BOOLEAN]

AnalysisNext ==
    \/ OpenModal
    \/ \E present \in BOOLEAN : EditQuestion(present)
    \/ ExecuteAnalysis
    \/ AbortAnalysis
    \/ CloseModal
    \/ \E id \in 1..MaxStreams : AbortReturns(id)
    \/ \E request \in StreamCalls : StreamSettles(request)

AnalysisSpec == Init /\ [][AnalysisNext]_allVars

\* ------------------------------------------------------------ properties
ResetOps == {"clearResult", "loadResult"}

\* the storage block shown for index-pane row p: blocks[blockCount - 1 - p]
\* (sequences are 1-based)
StorageBlockOfRow(p) == result.blocks[blockCount - p]

HitPositions(block) == {k \in 1..Len(block.messages) : block.messages[k].isHit}

MinOf(S) == CHOOSE x \in S : \A y \in S : x <= y

\* C1: debounce - a 'reached bottom' trigger that arrives while Idle on a
\* block that is not the last one advances the index by exactly one and
\* opens the window; every trigger that arrives while Advancing is dropped;
\* so one debounce window never holds more than one increment.
C1_Debounce ==
    [][last'.op = "goToNextBlock" =>
         /\ (isBlockSwitching =>
                UNCHANGED <<selectedBlockIndex, isBlockSwitching, switchTimers>>)
         /\ (~isBlockSwitching /\ blockCount > 0 /\ selectedBlockIndex < blockCount - 1 =>
                selectedBlockIndex' = selectedBlockIndex + 1 /\ isBlockSwitching')
         /\ advancesInWindow' <= 1]_vars

\* a trigger was dropped inside an open window although a next block exists
C1_Witness ==
    /\ last.op = "goToNextBlock"
    /\ isBlockSwitching
    /\ scrollToIndexCall = NoScrollToIndex
    /\ advancesInWindow = 1
    /\ selectedBlockIndex < blockCount - 1

\* C2: right after any replacement of the result the active index is 0 and
\* there is no pending scroll target, whatever they were before.
C2_ResetProperty ==
    last.op \in ResetOps => selectedBlockIndex = 0 /\ pendingScrollToMessageId = Null

\* a result was replaced while Advancing, on a later block, with a target pending
C2_Witness ==
    /\ last.op \in ResetOps
    /\ resetFrom.switching
    /\ resetFrom.index > 0
    /\ resetFrom.pending # Null

\* C3: right after any replacement of the result the machine is Idle.
C3_ResetForcesIdle ==
    last.op \in ResetOps => ~isBlockSwitching

\* C4: every scroll-to-message command names a hit of the block that is
\* active when the command is issued.
C4_NoStaleScroll ==
    scrollToMessageCall # Null =>
        /\ selectedBlockIndex \in 0..(blockCount - 1)
        /\ \E k \in HitPositions(StorageBlockOfRow(selectedBlockIndex)) :
              StorageBlockOfRow(selectedBlockIndex).messages[k].id = scrollToMessageCall

\* C5: a timer whose target was recorded under a result that has since been
\* replaced issues no scroll-to-message command when it expires.
C5_ReplacementInvalidatesTarget ==
    [][(last'.op = "scrollTimer" /\ scrollTimers # <<>> /\ Head(scrollTimers).stale) =>
          scrollToMessageCall' = Null]_vars

\* C6: a selectBlock that arrives while Advancing changes neither the active
\* index nor the pending scroll target.
C6_SelectOnlyWhileIdle ==
    [][(last'.op = "selectBlock" /\ isBlockSwitching) =>
          UNCHANGED <<selectedBlockIndex, pendingScrollToMessageId>>]_vars

\* C7: after selectBlock on a block without hit messages there is no pending
\* scroll target.
C7_NoHitClearsPending ==
    (/\ last.op = "selectBlock"
     /\ last.arg \in 0..(blockCount - 1)
     /\ HitPositions(StorageBlockOfRow(last.arg)) = {})
    => pendingScrollToMessageId = Null

\* C8: after selectBlock(i) the active index is i and, if storage block
\* blocks[blockCount-1-i] has a hit, the pending target is the id of its
\* first hit message in block order.
C8_SelectBlock ==
    last.op = "selectBlock" =>
        /\ selectedBlockIndex = last.arg
        /\ last.arg \in 0..(blockCount - 1)
        /\ LET block == StorageBlockOfRow(last.arg)
           IN  HitPositions(block) # {} =>
                 pendingScrollToMessageId = block.messages[MinOf(HitPositions(block))].id

\* a row was selected whose block has several hits after a context message,
\* in a result where the row position differs from the storage position
C8_Witness ==
    /\ last.op = "selectBlock"
    /\ blockCount >= 2
    /\ LET block == StorageBlockOfRow(last.arg)
       IN  /\ Cardinality(HitPositions(block)) >= 1
           /\ MinOf(HitPositions(block)) > 1
           /\ pendingScrollToMessageId = block.messages[MinOf(HitPositions(block))].id

\* C9: the expiry of a settle timer that was started before the last result
\* replacement changes neither the state flag, the active index nor the
\* pending target.
C9_StaleTimerIsNoOp ==
    [][(last'.op = "switchTimer" /\ switchTimers # <<>> /\ Head(switchTimers).stale) =>
          UNCHANGED <<isBlockSwitching, selectedBlockIndex, pendingScrollToMessageId>>]_vars

\* C10: an advance on the last block, or without blocks, leaves the index and
\* the state flag unchanged, starts no settle timer and issues no index-pane
\* scroll.
C10_GuardFailure ==
    [][(last'.op = "goToNextBlock" /\ (blockCount = 0 \/ selectedBlockIndex = blockCount - 1)) =>
          /\ UNCHANGED <<selectedBlockIndex, isBlockSwitching, switchTimers>>
          /\ scrollToIndexCall' = NoScrollToIndex]_vars

\* an advance was refused on the last block of a result while Idle
C10_Witness ==
    /\ last.op = "goToNextBlock"
    /\ blockCount >= 2
    /\ selectedBlockIndex = blockCount - 1
    /\ ~isBlockSwitching
    /\ switchTimers = <<>>
    /\ scrollToIndexCall = NoScrollToIndex

\* C11: reversal - every valid index-pane row p shows storage block
\* blocks[blockCount-1-p]: the row lookup, the messages and hit ids of the
\* active row, and the start timestamp read back after selectBlock(p).
C11_Reversal ==
    /\ \A p \in 0..(blockCount - 1) :
          getBlockAtReversedIndex(p) = <<StorageBlockOfRow(p)>>
    /\ selectedBlockIndex \in 0..(blockCount - 1) =>
          LET block == StorageBlockOfRow(selectedBlockIndex)
          IN  /\ Len(currentBlockMessages) = Len(block.messages)
              /\ \A k \in 1..Len(block.messages) :
                    currentBlockMessages[k].id = block.messages[k].id
              /\ {hitMessageIds[k] : k \in 1..Len(hitMessageIds)} =
                    {block.messages[k].id : k \in HitPositions(block)}
    /\ last.op = "selectBlock" =>
          /\ getBlockAtReversedIndex(selectedBlockIndex) # <<>>
          /\ getBlockAtReversedIndex(selectedBlockIndex)[1].startTs =
                result.blocks[blockCount - last.arg].startTs

\* with three blocks, row 2 was selected and shows the oldest block
C11_Witness ==
    /\ last.op = "selectBlock"
    /\ blockCount = 3
    /\ last.arg = 2
    /\ getBlockAtReversedIndex(selectedBlockIndex)[1].startTs = result.blocks[1].startTs
    /\ result.blocks[1].startTs # result.blocks[3].startTs

\* C12 (as stated): whenever a result is loaded the active index lies in
\* [0, blockCount).
C12_IndexInRange_Original ==
    result.present => selectedBlockIndex \in 0..(blockCount - 1)

\* C12 (amended): the active index lies in [0, blockCount) whenever the
\* loaded result has a block, and is 0 when there is no result or no block.
C12_IndexInRange ==
    /\ blockCount > 0 => selectedBlockIndex \in 0..(blockCount - 1)
    /\ blockCount = 0 => selectedBlockIndex = 0

\* the result was taken away while a later row was active: the index went
\* back to 0 together with the block count
C12_Witness ==
    /\ last.op = "clearResult"
    /\ resetFrom.index = 2
    /\ blockCount = 0
    /\ selectedBlockIndex = 0

\* C13: an accepted advance (Idle, result present, not the last block) sets
\* the flag, increments the index by one, starts the settle timer and asks
\* the index pane to scroll to the new row, centered, in the same step.
C13_AcceptedAdvance ==
    [][(/\ last'.op = "goToNextBlock"
        /\ ~isBlockSwitching
        /\ result.present
        /\ selectedBlockIndex < blockCount - 1) =>
          /\ isBlockSwitching'
          /\ selectedBlockIndex' = selectedBlockIndex + 1
          /\ scrollToIndexCall' = [index |-> selectedBlockIndex + 1, align |-> "center"]
          /\ Len(switchTimers') = Len(switchTimers) + 1]_vars

\* an advance from row 1 to row 2 was accepted and the list was scrolled
C13_Witness ==
    /\ last.op = "goToNextBlock"
    /\ isBlockSwitching
    /\ selectedBlockIndex = 2
    /\ scrollToIndexCall = [index |-> 2, align |-> "center"]
    /\ advancesInWindow = 1

\* C14: under timer fairness Advancing is never permanent: whenever the flag
\* is set, the settle timer fires and the machine is Idle again.
C14_AdvancingEnds ==
    isBlockSwitching ~> ~isBlockSwitching

\* the settle timer has fired and ended a window on a row that can advance
C14_Witness ==
    /\ last.op = "switchTimer"
    /\ ~isBlockSwitching
    /\ switchTimers = <<>>
    /\ advancesInWindow = 0
    /\ selectedBlockIndex < blockCount - 1

\* C15: selectBlock itself issues no scroll-to-message command; a command is
\* issued only by the expiry of a timer started for a pending target; the
\* pending target is null once the command has been issued; and every pending
\* target is eventually cleared.
C15_CrossPaneOrdering ==
    /\ [][/\ last'.op = "selectBlock" => scrollToMessageCall' = Null
          /\ scrollToMessageCall' # Null =>
                /\ last'.op = "scrollTimer"
                /\ scrollTimers # <<>>
                /\ scrollToMessageCall' = Head(scrollTimers).messageId
                /\ pendingScrollToMessageId' = Null]_vars
    /\ (pendingScrollToMessageId # Null ~> pendingScrollToMessageId = Null)

\* the timer of a selection has fired: the command for the first hit of the
\* active block was issued and the target is cleared
C15_Witness ==
    /\ last.op = "scrollTimer"
    /\ scrollToMessageCall # Null
    /\ pendingScrollToMessageId = Null
    /\ selectedBlockIndex \in 0..(blockCount - 1)
    /\ HitPositions(StorageBlockOfRow(selectedBlockIndex)) # {}
    /\ scrollToMessageCall =
          StorageBlockOfRow(selectedBlockIndex).messages[
              MinOf(HitPositions(StorageBlockOfRow(selectedBlockIndex)))].id

\* C16: a 'reached top' event changes nothing, and the active index
\* decreases only in a selectBlock or a result replacement.
C16_BackwardDisabled ==
    [][/\ last'.op = "goToPrevBlock" =>
             /\ UNCHANGED <<result, selectedBlockIndex, isBlockSwitching,
                            pendingScrollToMessageId, scrollTimers, switchTimers>>
             /\ scrollToMessageCall' = Null
             /\ scrollToIndexCall' = NoScrollToIndex
       /\ selectedBlockIndex' < selectedBlockIndex =>
             last'.op \in {"selectBlock"} \cup ResetOps]_vars

\* 'reached top' arrived on a later row, while Advancing with a target pending
C16_Witness ==
    /\ last.op = "goToPrevBlock"
    /\ selectedBlockIndex > 0
    /\ isBlockSwitching
    /\ pendingScrollToMessageId # Null

\* the render after the assignment of filterResult has bound the token props
TokensRendered == tokenProps # NoTokenProps

\* C17 as stated: a result of 33333 characters is green, one of 33334 gives
\* 50001 tokens and yellow, one of 66667 gives 100001 tokens and red.
C17_ThresholdCases_Original ==
    (TokensRendered /\ filterResult.present) =>
        /\ filterResult.totalChars = 33333 => tokenProps.tokenStatus = "green"
        /\ filterResult.totalChars = 33334 =>
               tokenProps.estimatedTokens = 50001 /\ tokenProps.tokenStatus = "yellow"
        /\ filterResult.totalChars = 66667 =>
               tokenProps.estimatedTokens = 100001 /\ tokenProps.tokenStatus = "red"

\* C17: token threshold cases.  A result of 33332 characters gives 49998
\* tokens and green; 33333 characters give 50000 tokens (the ceiling of
\* 49999.5), which is on the boundary and therefore yellow; 33334 give 50001
\* and yellow; 66667 give 100001 and red.
C17_ThresholdCases ==
    (TokensRendered /\ filterResult.present) =>
        /\ filterResult.totalChars = 33332 =>
               tokenProps.estimatedTokens = 49998 /\ tokenProps.tokenStatus = "green"
        /\ filterResult.totalChars = 33333 =>
               tokenProps.estimatedTokens = 50000 /\ tokenProps.tokenStatus = "yellow"
        /\ filterResult.totalChars = 33334 =>
               tokenProps.estimatedTokens = 50001 /\ tokenProps.tokenStatus = "yellow"
        /\ filterResult.totalChars = 66667 =>
               tokenProps.estimatedTokens = 100001 /\ tokenProps.tokenStatus = "red"

\* a result of 33333 characters has been rendered as 50000 tokens, yellow
C17_Witness ==
    /\ TokensRendered
    /\ filterResult.present
    /\ filterResult.totalChars = 33333
    /\ tokenProps = [estimatedTokens |-> 50000, tokenStatus |-> "yellow"]

\* order of the three statuses
StatusRank(status) == CASE status = "green" -> 0 [] status = "yellow" -> 1 [] status = "red" -> 2

\* C18: for every result size, estimatedTokens is the ceiling of 1.5 times
\* totalChars (the least t with 2t >= 3 totalChars), 0 without a result;
\* tokenStatus is green iff estimatedTokens < 50000, yellow iff
\* 50000 <= estimatedTokens < 100000, red otherwise; and the status of a
\* result is never below the status of a result one character shorter.
C18_TokenEstimate ==
    TokensRendered =>
        LET t == tokenProps.estimatedTokens
            c == filterResult.totalChars
        IN  /\ ~filterResult.present => t = 0
            /\ filterResult.present => (2 * t >= 3 * c /\ 2 * (t - 1) < 3 * c)
            /\ tokenProps.tokenStatus \in {"green", "yellow", "red"}
            /\ tokenProps.tokenStatus = "green" <=> t < 50000
            /\ tokenProps.tokenStatus = "yellow" <=> (50000 <= t /\ t < 100000)
            /\ tokenProps.tokenStatus = "red" <=> t >= 100000
            /\ (filterResult.present /\ c >= 1) =>
                   StatusRank(tokenProps.tokenStatus) >=
                   StatusRank(tokenStatus(estimatedTokens([filterResult EXCEPT !.totalChars = c - 1])))

\* the smallest result that is rendered red, one character above a yellow one
C18_Witness ==
    /\ TokensRendered
    /\ filterResult.present
    /\ filterResult.totalChars = 66667
    /\ tokenProps.tokenStatus = "red"
    /\ tokenStatus(estimatedTokens([filterResult EXCEPT !.totalChars = 66666])) = "yellow"

\* the calls of the filter service that settle in the step
Settled == {call \in inFlight : \A other \in inFlight' : other.id # call.id}

\* C19: when a call of the filter service settles after the filter mode has
\* been switched away from the mode it was issued under, filterResult stays
\* null: the result of the abandoned call is not assigned.
C19_AbandonedCompletionIsNoOp ==
    [][(\E call \in Settled : call.abandoned) =>
          (filterResult' = filterResult /\ ~filterResult'.present)]_allVars

\* C20: while isFiltering is true filterResult is null; a rejected call
\* leaves filterResult null; a result that executeFilter replaced by null is
\* never assigned again; every assignment of a result is the whole result
\* of one call that settles in that step; and when the call settles
\* isFiltering is false again, so the execute action is no longer blocked
\* by a filter in progress.
C20_FailureSurfacesNoResult ==
    /\ [](isFiltering => filterResult = NoFilterResult)
    /\ [](isFiltering <=> inFlight # {})
    /\ [](filterResult.present => filterResult.request > clearedResult.request)
    /\ [][/\ (Settled # {} /\ tabLast'.op = "requestFails") =>
               (filterResult' = NoFilterResult /\ filterResult = NoFilterResult)
          /\ Settled # {} => ~isFiltering'
          /\ (filterResult' # filterResult /\ filterResult'.present) =>
               \E call \in Settled :
                   /\ Settled = {call}
                   /\ \E payload \in ServicePayloads : filterResult' = ResultOf(call, payload)
          /\ nextRequestId' # nextRequestId => filterResult' = NoFilterResult]_allVars

\* the second filter run failed after the result of the first had been
\* shown: nothing is shown and the execute button is enabled again
C20_Witness ==
    /\ tabLast.op = "requestFails"
    /\ tabLast.request = 2
    /\ clearedResult.present
    /\ clearedResult.request = 1
    /\ filterResult = NoFilterResult
    /\ ~isFiltering
    /\ canExecuteFilter

\* the inputs with which a filter run cannot be started
EmptyFilterInput ==
    IF filterMode = "condition"
    THEN conditionFilter.keywords = {} /\ conditionFilter.senderIds = {}
         /\ conditionFilter.timeRange = NoTimeRange
    ELSE selectedSessionIds = {}

\* C21: with no active session, with an empty filter condition, or while a
\* filter is running, the execute action is not offered (canExecuteFilter is
\* false) and no step from such a state sends a request to the filter
\* service.
C21_InputErrorsDisallowed ==
    /\ []((currentSessionId = Null \/ EmptyFilterInput \/ isFiltering) => ~canExecuteFilter)
    /\ [][(currentSessionId = Null \/ EmptyFilterInput \/ isFiltering) =>
              nextRequestId' = nextRequestId]_allVars

\* ------------------------------------------------ properties: selector
\* the step runs the selector handler `op`
SelStep(op) == selLast' # selLast /\ selLast'.op = op

\* the same handler with the same argument ran in the step before
SameAsLast == selLast'.op = selLast.op /\ selLast'.arg = selLast.arg

\* the ids of the sessions of a date
GroupOf(date) == {sessions[i].id : i \in {j \in DOMAIN sessions : DateOf(sessions[j].startTs) = date}}

\* the dates a header can name, and one without sessions
Dates == {DateOf(st) : st \in StartSamples} \cup {2}

NoDuplicates(list) == \A i, j \in DOMAIN list : list[i] = list[j] => i = j

\* C22 as stated: selectDate on a date that is not fully selected leaves
\* it fully selected, on a fully selected date leaves it not fully
\* selected, and selectDate applied twice in a row to the same date yields
\* the same selection as applying it once.
C22_GroupIdempotence_Original ==
    /\ [](selLast.op = "selectDate" =>
             IF GroupOf(selLast.arg) \subseteq SetOf(selLast.before)
             THEN ~isDateFullySelected(selLast.arg)
             ELSE isDateFullySelected(selLast.arg))
    /\ [][(SelStep("selectDate") /\ selLast.op = "selectDate" /\ SameAsLast) =>
              SetOf(selectedSet') = SetOf(selectedSet)]_allVars

\* C22: selectDate is a toggle of the date's group.  On a date that is not
\* fully selected it selects every session of the date, on a fully selected
\* date it deselects every one; applied twice in a row to the same date the
\* second application undoes the first, so the selection differs from the
\* one after a single application: it is the selection of before the first
\* application when the date was fully selected then, and that selection
\* without the date's sessions otherwise.
C22_GroupToggle ==
    /\ [](selLast.op = "selectDate" =>
             IF GroupOf(selLast.arg) \subseteq SetOf(selLast.before)
             THEN /\ ~isDateFullySelected(selLast.arg)
                  /\ SetOf(selectedSet) = SetOf(selLast.before) \ GroupOf(selLast.arg)
             ELSE /\ isDateFullySelected(selLast.arg)
                  /\ SetOf(selectedSet) = SetOf(selLast.before) \cup GroupOf(selLast.arg))
    /\ [][(SelStep("selectDate") /\ selLast.op = "selectDate" /\ SameAsLast) =>
              /\ SetOf(selectedSet') # SetOf(selectedSet)
              /\ SetOf(selectedSet') =
                     IF GroupOf(selLast.arg) \subseteq SetOf(selLast.before)
                     THEN SetOf(selLast.before)
                     ELSE SetOf(selLast.before) \ GroupOf(selLast.arg)]_allVars

\* selectDate has just deselected a date of two sessions that was fully
\* selected, leaving a session of another date selected
C22_Witness ==
    /\ selLast.op = "selectDate"
    /\ Cardinality(GroupOf(selLast.arg)) = 2
    /\ GroupOf(selLast.arg) \subseteq SetOf(selLast.before)
    /\ GroupOf(selLast.arg) \cap SetOf(selectedSet) = {}
    /\ selectedSet # <<>>

\* C23: after toggleSession and after selectDate the bound list and the
\* internal set hold the same ids and neither repeats an id; after
\* selectDate the date's group is in both representations either wholly
\* present or wholly absent, and the ids outside the group are as before.
C23_ListMirrorsSet ==
    (selLast.op \in {"toggleSession", "selectDate"}) =>
        /\ SetOf(selectedIds) = SetOf(selectedSet)
        /\ NoDuplicates(selectedIds)
        /\ NoDuplicates(selectedSet)
        /\ selLast.op = "selectDate" =>
               LET group == GroupOf(selLast.arg)
               IN  /\ \A list \in {selectedIds, selectedSet} :
                          group \subseteq SetOf(list) \/ group \cap SetOf(list) = {}
                   /\ SetOf(selectedSet) \ group = SetOf(selLast.before) \ group

\* selectDate has just selected both sessions of a date of which one was
\* selected before
C23_Witness ==
    /\ selLast.op = "selectDate"
    /\ Cardinality(GroupOf(selLast.arg)) = 2
    /\ Cardinality(GroupOf(selLast.arg) \cap SetOf(selLast.before)) = 1
    /\ GroupOf(selLast.arg) \subseteq SetOf(selectedIds)
    /\ GroupOf(selLast.arg) \subseteq SetOf(selectedSet)

\* C24 as stated: after setup the members of the set change only in a
\* step of toggleSession or selectDate.
C24_ListWriteOnly_Original ==
    [][SetOf(selectedSet') # SetOf(selectedSet) =>
          selLast'.op \in {"toggleSession", "selectDate"}]_allVars

\* C24: the bound list is read back.  The members of the set change only
\* in a step of toggleSession or selectDate or when the owner assigns the
\* list, and after the owner's assignment the set holds exactly the ids of
\* the assigned list.
C24_ListReadBack ==
    [][/\ SetOf(selectedSet') # SetOf(selectedSet) =>
             selLast'.op \in {"toggleSession", "selectDate", "ownerWritesList"}
       /\ selectedIds' # selectedIds => SetOf(selectedSet') = SetOf(selectedIds')]_allVars

\* the owner has assigned a list whose ids differ from the set before
C24_Witness ==
    /\ selLast.op = "ownerWritesList"
    /\ SetOf(selLast.before) # SetOf(selectedIds)
    /\ selLast.before # <<>>
    /\ selectedIds # <<>>
    /\ SetOf(selectedSet) = SetOf(selectedIds)

\* C25: toggleSession(id) negates isSelected(id) and leaves the membership
\* of every other id as it was; toggleSession of the same id in the next
\* step restores the set of before the first.
C25_ToggleFlips ==
    [][\A id \in 1..MaxSessions : (SelStep("toggleSession") /\ selLast'.arg = id) =>
              /\ isSelected(id)' = ~isSelected(id)
              /\ \A other \in (1..MaxSessions) \ {id} : isSelected(other)' = isSelected(other)
              /\ (selLast.op = "toggleSession" /\ SameAsLast) =>
                     SetOf(selectedSet') = SetOf(selLast.before)]_allVars

\* toggleSession has just removed an id while another id stays selected
C25_Witness ==
    /\ selLast.op = "toggleSession"
    /\ selLast.arg \in SetOf(selLast.before)
    /\ selLast.arg \notin SetOf(selectedSet)
    /\ SetOf(selectedSet) # {}

\* C26: isDateFullySelected(date) is true iff the date has a session and
\* every session of the date is in the set; for a date without sessions it
\* is false.
C26_FullySelected ==
    \A date \in Dates :
        /\ isDateFullySelected(date) <=>
               (GroupOf(date) # {} /\ GroupOf(date) \subseteq SetOf(selectedSet))
        /\ GroupOf(date) = {} => ~isDateFullySelected(date)

\* one date is fully selected, one is partly selected, one has no session
C26_Witness ==
    /\ isDateFullySelected(0)
    /\ GroupOf(1) # {}
    /\ ~isDateFullySelected(1)
    /\ GroupOf(2) = {}
    /\ selectedSet # <<>>

\* ------------------------------------------- properties: projections
\* the position of a message id in a block
PositionOf(block, id) == CHOOSE k \in 1..Len(block.messages) : block.messages[k].id = id

\* C27: hitMessageIds holds exactly the ids of the messages of the active
\* block that are hits, each once and in the order of the block; it is
\* empty without a result and for a result without blocks; and every id in
\* it is the id of a message of currentBlockMessages.
C27_HitMessageIds ==
    /\ (~result.present \/ blockCount = 0) => hitMessageIds = <<>>
    /\ (result.present /\ blockCount > 0) =>
           LET block == StorageBlockOfRow(selectedBlockIndex)
           IN  /\ {hitMessageIds[i] : i \in DOMAIN hitMessageIds} =
                      {block.messages[k].id : k \in HitPositions(block)}
               /\ Len(hitMessageIds) = Cardinality(HitPositions(block))
               /\ \A i, j \in DOMAIN hitMessageIds :
                      i < j => PositionOf(block, hitMessageIds[i]) < PositionOf(block, hitMessageIds[j])
    /\ \A i \in DOMAIN hitMessageIds :
           \E k \in DOMAIN currentBlockMessages : currentBlockMessages[k].id = hitMessageIds[i]

\* the active block is not the newest one and has a context message before
\* its only hit
C27_Witness ==
    /\ result.present
    /\ selectedBlockIndex = 1
    /\ Len(currentBlockMessages) = 2
    /\ Len(hitMessageIds) = 1
    /\ hitMessageIds[1] = currentBlockMessages[2].id

\* the instants at which a calendar year starts on the host
LocalNewYears == {1704067200 - timeZone, 1735689600 - timeZone}

\* C28: shouldShowYear is true iff the first storage block starts in another
\* calendar year than the last storage block ends (a new year of the host's
\* calendar lies after that start and not after that end); it is false
\* without a result, for a result without blocks and for a result whose
\* blocks lie in one calendar year; and it is the same for every
\* selectedBlockIndex.
C28_ShouldShowYear ==
    /\ (~result.present \/ blockCount = 0) => ~shouldShowYear
    /\ (result.present /\ blockCount > 0) =>
           LET firstStart == result.blocks[1].startTs
               lastEnd == result.blocks[blockCount].endTs
           IN  /\ shouldShowYear <=> \E newYear \in LocalNewYears :
                                        firstStart < newYear /\ newYear <= lastEnd
               /\ (\A newYear \in LocalNewYears :
                      \/ \A b \in 1..blockCount : result.blocks[b].endTs < newYear
                      \/ \A b \in 1..blockCount : newYear <= result.blocks[b].startTs)
                  => ~shouldShowYear
    /\ yearOption = "numeric" => shouldShowYear
    /\ yearOption = "absent" => ~shouldShowYear

\* on a host eight hours ahead of UTC the second block is selected; the
\* first block lies in 2023 of the host's calendar and the second ends in
\* 2024, both in 2023 in UTC, and the dates have been formatted with the year
C28_Witness ==
    /\ timeZone = 28800
    /\ blockCount = 2
    /\ selectedBlockIndex = 1
    /\ result.blocks[1].endTs < 1704038400
    /\ result.blocks[2].endTs >= 1704038400
    /\ result.blocks[2].endTs < 1704067200
    /\ yearOption = "numeric"

\* C29: the token estimate blocks nothing.  The filter can be executed
\* exactly when no filter is running and the filter input is not empty; the
\* export and local analysis buttons are offered exactly when the result has
\* a block; a click on either does its work, whatever tokenStatus and
\* estimatedTokens are, red included.
C29_TokenAdvisory ==
    /\ [](canExecuteFilter <=> (~isFiltering /\ ~EmptyFilterInput))
    /\ [](actionsOffered <=> (filterResult.present /\ filterResult.blocks > 0))
    /\ []((tokenProps.tokenStatus = "red" /\ ~isFiltering) => actionsOffered)
    /\ [][/\ (tabLast' # tabLast /\ tabLast'.op = "openLocalAnalysis") => showAnalysisModal'
          /\ (tabLast' # tabLast /\ tabLast'.op = "exportFeedPack") =>
                 tabLast'.request = filterResult.request]_allVars

\* with a red estimate the local analysis has been opened and the filter
\* can be executed again
C29_Witness ==
    /\ tokenProps.tokenStatus = "red"
    /\ tokenProps.estimatedTokens > 100000
    /\ tabLast.op = "openLocalAnalysis"
    /\ showAnalysisModal
    /\ actionsOffered
    /\ canExecuteFilter

\* ------------------------------------------------- properties: updater
\* the numbers of a version string, read off the table of versions
TripleOf(str) ==
    CHOOSE triple \in VersionTriples \cup {<<1, MaxVersion - 1, 1>>, <<1, MaxVersion - 1, 2>>,
                                            <<1, MaxVersion, 0>>} : FormatVersion(triple) = str

MajorOrMinorIncrease(current, latest) ==
    \/ TripleOf(latest)[1] > TripleOf(current)[1]
    \/ TripleOf(latest)[1] = TripleOf(current)[1] /\ TripleOf(latest)[2] > TripleOf(current)[2]

\* C31: an update-available event that answers an automatic check and offers
\* only a patch update opens no dialog and starts no download; an event that
\* answers a manual check, or offers a major or minor update, opens the update
\* dialog when none is open.
C31_PatchUpdatesIgnored ==
    /\ [](updLast.op = "updateAvailable" =>
            /\ (updLast.origin = "automatic" /\ ~MajorOrMinorIncrease(appVersion, infoVersion))
                   => ~updLast.dialog
            /\ ((updLast.origin = "manual" \/ MajorOrMinorIncrease(appVersion, infoVersion))
                    /\ ~updLast.box)
                   => updLast.dialog)
    /\ [][(updLast' # updLast /\ updLast'.op = "updateAvailable" /\ ~updLast'.dialog)
              => downloads' = downloads]_allVars

\* C32: 'show-message' ("already the latest version") is sent only by an
\* update-not-available event that answers a manual check and is not the
\* first update-not-available event since the start; the first one is silent
\* and the event of an automatic check never sends it.
C32_LatestVersionMessage ==
    updLast.op = "updateNotAvailable" =>
        /\ updLast.message => (updLast.origin = "manual" /\ ~updLast.first)
        /\ updLast.first => ~updLast.message
        /\ updLast.origin = "automatic" => ~updLast.message

\* C33: isMajorOrMinorUpdate(current, latest) is true exactly when the major
\* number of latest is greater, or the major numbers are equal and the minor
\* number of latest is greater; it is false for a patch-only update and for
\* the same or an older version.  The handler of an automatic check opens the
\* dialog exactly when the function returns true.
C33_MajorOrMinorUpdate ==
    /\ isMajorOrMinorUpdate(appVersion, infoVersion) = MajorOrMinorIncrease(appVersion, infoVersion)
    /\ updLast.op = "updateAvailable" =>
           updLast.dialog = MajorOrMinorIncrease(appVersion, infoVersion)
    /\ (TripleOf(infoVersion)[1] = TripleOf(appVersion)[1]
            /\ TripleOf(infoVersion)[2] = TripleOf(appVersion)[2])
           => ~isMajorOrMinorUpdate(appVersion, infoVersion)

\* the handler has compared a two-digit number with a one-digit number
C33_Witness ==
    /\ updLast.op = "updateAvailable"
    /\ updLast.dialog
    /\ TripleOf(appVersion)[1] = TripleOf(infoVersion)[1]
    /\ Len(NumberToString(TripleOf(infoVersion)[2])) > Len(NumberToString(TripleOf(appVersion)[2]))

\* ------------------------------------------- properties: preview, implicit
\* C34: isBlockSwitching is true exactly when one settle timer is pending, and
\* at most one settle timer is pending at any time; so the timer that closes
\* a debounce window is the one its own advance started.
C34_OneSettleTimer ==
    /\ [](Len(switchTimers) <= 1 /\ (isBlockSwitching <=> Len(switchTimers) = 1))
    /\ [][(last' # last /\ last'.op = "switchTimer") =>
              /\ isBlockSwitching /\ ~isBlockSwitching'
              /\ switchTimers' = <<>>
              /\ advancesInWindow = 1]_allVars

\* the result was replaced inside the window: the flag and its timer both survive
C34_Witness ==
    /\ last.op = "loadResult"
    /\ isBlockSwitching
    /\ Len(switchTimers) = 1
    /\ switchTimers[1].stale
    /\ selectedBlockIndex = 0

\* the block shown by the content pane
ShownBlock == getBlockAtReversedIndex(selectedBlockIndex)

\* C35: every accepted advance moves the content pane from storage block s to
\* storage block s-1; after a reset the pane shows the newest block
\* blocks[blockCount-1]; on storage block 0 no advance is accepted.  (Storage
\* block s is result.blocks[s + 1] here, sequences being numbered from 1.)
C35_AdvanceToOlderBlock ==
    /\ [][(last'.op = "goToNextBlock" /\ selectedBlockIndex' # selectedBlockIndex) =>
              \E s \in 1..(blockCount - 1) :
                  /\ ShownBlock = <<result.blocks[s + 1]>>
                  /\ ShownBlock' = <<result.blocks[s]>>
                  /\ \A t \in 1..blockCount : t # s => result.blocks[t] # result.blocks[s]]_allVars
    /\ []((last.op = "loadResult" /\ blockCount > 0) => ShownBlock = <<result.blocks[blockCount]>>)
    /\ [][(last'.op = "goToNextBlock" /\ blockCount > 0 /\ ShownBlock = <<result.blocks[1]>>) =>
              selectedBlockIndex' = selectedBlockIndex]_allVars

\* two advances after a reset have brought the pane to storage block 0 of three
C35_Witness ==
    /\ last.op = "goToNextBlock"
    /\ blockCount = 3
    /\ selectedBlockIndex = 2
    /\ isBlockSwitching
    /\ ShownBlock = <<result.blocks[1]>>
    /\ result.blocks[1] # result.blocks[3]

\* ------------------------------------------ properties: selector, implicit
\* the group of the date was partially selected in the set `set`
PartiallySelected(date, set) ==
    /\ GroupOf(date) \cap SetOf(set) # {}
    /\ ~(GroupOf(date) \subseteq SetOf(set))

\* C36: selectDate(date) changes the membership of the ids of that date only
\* (ids of other dates and selected ids that are not in the loaded list stay
\* as they were); it removes all of them if every one was selected and adds
\* all of them otherwise, so afterwards the group is fully selected or fully
\* unselected; a second selectDate(date) after one that started from a
\* partially selected group leaves the group fully unselected.
C36_SelectDateFrame ==
    /\ [](selLast.op = "selectDate" =>
            /\ SetOf(selectedSet) \ GroupOf(selLast.arg) = SetOf(selLast.before) \ GroupOf(selLast.arg)
            /\ IF GroupOf(selLast.arg) \subseteq SetOf(selLast.before)
               THEN GroupOf(selLast.arg) \cap SetOf(selectedSet) = {}
               ELSE GroupOf(selLast.arg) \subseteq SetOf(selectedSet)
            /\ SetOf(selectedIds) = SetOf(selectedSet))
    /\ [][(/\ SelStep("selectDate")
           /\ selLast.op = "selectDate"
           /\ SameAsLast
           /\ PartiallySelected(selLast.arg, selLast.before)) =>
              /\ GroupOf(selLast.arg) \cap SetOf(selectedSet') = {}
              /\ SetOf(selectedSet') # SetOf(selLast.before)
              /\ SetOf(selectedSet') \ GroupOf(selLast.arg)
                     = SetOf(selLast.before) \ GroupOf(selLast.arg)]_allVars

\* a partially selected group of two was completed while a selected id of
\* another date or of no loaded session was kept
C36_Witness ==
    /\ selLast.op = "selectDate"
    /\ PartiallySelected(selLast.arg, selLast.before)
    /\ Cardinality(GroupOf(selLast.arg)) >= 2
    /\ GroupOf(selLast.arg) \subseteq SetOf(selectedSet)
    /\ SetOf(selLast.before) \ GroupOf(selLast.arg) # {}
    /\ SetOf(selectedSet) \ GroupOf(selLast.arg) = SetOf(selLast.before) \ GroupOf(selLast.arg)

\* ------------------------------------------------ properties: the modal
\* the requests that have neither settled nor been aborted
LiveStreams == {request \in streams : ~request.aborted}

\* C37: at most one streaming request is in flight at a time, and while a
\* request started by executeAnalysis has not settled isAnalyzing is true and
\* currentRequestId names it; the late settlement of an aborted request
\* leaves the isAnalyzing / currentRequestId of a newer request alone.
C37_OneAnalysisInFlight ==
    /\ [](Cardinality(LiveStreams) <= 1)
    /\ [](\A request \in LiveStreams : isAnalyzing /\ currentRequestId = request.id)
    /\ [][\A request \in streams :
              (request.aborted /\ request \notin streams' /\ currentRequestId # request.id)
                  => UNCHANGED <<isAnalyzing, currentRequestId>>]_allVars

\* ------------------------------------------ properties: updater, implicit
UpdStep(op) == updLast' # updLast /\ updLast'.op = op

\* C38: at most one update dialog is open at any time: while
\* showUpdateMessageBox is true an update-available event opens none; the
\* flag is false again once the dialog is dismissed, so that a later
\* update-available event can open a dialog again.
C38_OneUpdateDialog ==
    /\ [](updateDialogs <= 1 /\ (showUpdateMessageBox <=> updateDialogs = 1))
    /\ []((updLast.op = "updateAvailable" /\ updLast.box) => ~updLast.dialog)
    /\ [](updLast.op = "closeUpdateDialog" => (~showUpdateMessageBox /\ updateDialogs = 0))
    /\ [][(UpdStep("updateAvailable") /\ ~showUpdateMessageBox
               /\ (isManualCheck \/ MajorOrMinorIncrease(appVersion, infoVersion')))
              => (updLast'.dialog /\ updateDialogs' = 1)]_allVars

\* a dialog was dismissed and a later event has opened the next one
C38_Witness ==
    /\ updLast.op = "updateAvailable"
    /\ updLast.dialog
    /\ updateDialogs = 1
    /\ updHistory.downloadAgreed
    /\ downloads = 1

\* C39: the manual-check flag is consumed by the check it was set for: after
\* every update-available, update-not-available or error event isManualCheck
\* is false, so an automatic check never runs with the flag of an earlier
\* manual check.
C39_ManualFlagConsumed ==
    /\ updLast.op \in {"updateAvailable", "updateNotAvailable", "error"} => ~isManualCheck
    /\ checking = "automatic" => ~isManualCheck

\* C40: a download is started only by the answer "download now" to the
\* update dialog (never by the event itself, never by "cancel"), and
\* quitAndInstall is called only after an update-downloaded event and the
\* answer "install" to the install dialog.
C40_ConsentBeforeDownloadAndInstall ==
    /\ [][downloads' > downloads =>
              (updLast'.op = "closeUpdateDialog" /\ updLast'.response = 0)]_allVars
    /\ [][(UpdStep("closeUpdateDialog") /\ updLast'.response # 0) =>
              downloads' = downloads]_allVars
    /\ [][quitTimers' > quitTimers =>
              /\ updLast'.op = "closeInstallDialog" /\ updLast'.response = 0
              /\ updHistory.downloaded]_allVars
    /\ []((installDialogs > 0 \/ quitTimers > 0 \/ updHistory.installAgreed)
              => updHistory.downloaded)
    /\ [](updHistory.downloaded => updHistory.downloadAgreed)
    /\ [](updHistory.quitAndInstall =>
              (updHistory.downloaded /\ updHistory.installAgreed /\ updHistory.downloadAgreed))

\* quitAndInstall has been called
C40_Witness ==
    /\ updLast.op = "quitAndInstall"
    /\ updHistory.quitAndInstall
    /\ updHistory.installAgreed

====
